---- MODULE Spec2Model ----
(***************************************************************************)
(* Verification model of maxminddb-mcp: the iterator manager               *)
(* (internal/iterator/manager.go, direct synchronous pull variant), the    *)
(* filter engine (internal/filter/filter.go) and the database manager      *)
(* (path-keyed variant that never closes readers).                         *)
(***************************************************************************)
EXTENDS Integers, Sequences, FiniteSets, TLC

VARIABLES
    db,         \* records of the database snapshot, in traversal order
    heap,       \* every ManagedIterator ever allocated, indexed by pointer
    iterators,  \* Manager.iterators: registry key (ID) -> pointer into heap
    now,        \* time.Now()
    issued,     \* resume tokens handed out by Iterate so far
    last,       \* the most recent call: operation, arguments, pre-state, result
    chain,      \* history of one paging lineage (positive caps only)
    nops,       \* number of manager calls made so far
    task,       \* SpecConc: the two in-flight Iterate calls on one iterator
    readers,    \* database.Manager.readers: absolute path -> reader
    databases,  \* database.Manager.databases: absolute path -> display name
    rstate,     \* every reader ever opened: "open" or "closed"
    held,       \* readers held by a lookup_network call in flight
    cleanup,    \* Manager.stopCleanup and the cleanup goroutines alive
    mu,         \* Manager.mu: the goroutine write-locking it, those read-locking it
    ops,        \* registry operations in flight, one per goroutine
    eval,       \* the last call into internal/filter: arguments and result
    reply,      \* the last lookup_network request and the handler's answer
    updater     \* database.Updater: checksums, the files it writes, its last call

vars == <<db, heap, iterators, now, issued, last, chain, nops, task,
          readers, databases, rstate, held, cleanup, mu, ops, eval, reply,
          updater>>

iterVars == <<db, heap, iterators, now, issued, last, chain, nops>>
dbVars == <<readers, databases, rstate, held>>
regVars == <<cleanup, mu, ops>>
reqVars == <<eval, reply>>
updVars == <<updater>>

----------------------------------------------------------------------------
(* Bounds *)

MaxNets == 2      \* networks in the database snapshot
MaxOps == 4       \* manager calls per behaviour
MaxIters == 2     \* iterators allocated per behaviour
MaxReaders == 3   \* readers opened by the database manager per behaviour

----------------------------------------------------------------------------
(* Dynamic values: map[string]any trees, tagged with their Go type *)

\* Strings are sequences of characters, so that substring tests compute.
VNil == [t |-> "nil", v |-> 0]
VStr(s) == [t |-> "str", v |-> s]
VInt(n) == [t |-> "int", v |-> n]
VUint(n) == [t |-> "uint", v |-> n]
VFloat(n) == [t |-> "float", v |-> n]
VBool(b) == [t |-> "bool", v |-> b]
VArr(s) == [t |-> "array", v |-> s]
VMap(m) == [t |-> "map", v |-> m]

US == <<"U", "S">>
CA == <<"C", "A">>

NumericTags == {"int", "uint", "float"}

\* A record that result.Decode cannot decode.
Undecodable == [t |-> "undecodable", v |-> 0]

RecUS == VMap([country |-> VMap([iso_code |-> VStr(US)]), asn |-> VUint(1)])
RecCA == VMap([country |-> VMap([iso_code |-> VStr(CA)]), asn |-> VUint(2)])

RecordInputs == {RecUS, RecCA, Undecodable}

----------------------------------------------------------------------------
(* netip.Prefix: sub-blocks of 1.0.0.0/24, addr is the last octet *)

ZeroPrefix == [valid |-> FALSE, addr |-> 0, bits |-> 0]
Prefix(a, b) == [valid |-> TRUE, addr |-> a, bits |-> b]

\* Prefix.String(): the text form; the zero Prefix prints "invalid Prefix".
PrefixString(p) ==
    IF p.valid THEN [kind |-> "cidr", addr |-> p.addr, bits |-> p.bits]
    ELSE [kind |-> "invalid Prefix", addr |-> 0, bits |-> 0]

EmptyString == [kind |-> "", addr |-> 0, bits |-> 0]

\* netip.ParsePrefix: only CIDR text parses.
ParsePrefixOK(s) == s.kind = "cidr" /\ s.bits \in 0..32

ParsePrefix(s) == IF ParsePrefixOK(s) THEN Prefix(s.addr, s.bits) ELSE ZeroPrefix

Network24 == Prefix(0, 24)

\* The i-th network of the snapshot: 1.0.0.(i-1)/32.
SubBlock(i) == Prefix(i - 1, 32)

Pow2(n) == IF n <= 0 THEN 1 ELSE 2 ^ n

PrefixContains(net, p) ==
    /\ net.valid /\ p.valid
    /\ net.bits <= p.bits
    /\ (p.addr \div Pow2(32 - net.bits)) = (net.addr \div Pow2(32 - net.bits))

\* Reader.NetworksWithin(network): the entries inside network, ascending.
RECURSIVE WithinFrom(_, _, _)
WithinFrom(d, net, i) ==
    IF i > Len(d) THEN <<>>
    ELSE (IF PrefixContains(net, SubBlock(i))
          THEN <<[prefix |-> SubBlock(i), rec |-> d[i]]>>
          ELSE <<>>) \o WithinFrom(d, net, i + 1)

NetworksWithin(d, net) == WithinFrom(d, net, 1)

----------------------------------------------------------------------------
(* internal/filter/filter.go *)

ModeAnd == "and"
ModeOr == "or"

SupportedOperators ==
    {"equals", "not_equals", "in", "not_in", "contains", "regex",
     "greater_than", "greater_than_or_equal", "less_than",
     "less_than_or_equal", "exists"}

\* A Filter: Field is the dot-path already split at the dots (the empty
\* string splits into one empty part), Operator a string, Value any.
Filter(f, op, val) == [Field |-> f, Operator |-> op, Value |-> val]

\* getNestedField: descend through maps; absent, or a non-map on the way,
\* gives nil.
RECURSIVE getNestedFrom(_, _, _)
getNestedFrom(current, parts, i) ==
    IF parts[i] \notin DOMAIN current THEN VNil
    ELSE LET value == current[parts[i]] IN
         IF i = Len(parts) THEN value
         ELSE IF value.t # "map" THEN VNil
         ELSE getNestedFrom(value.v, parts, i + 1)

getNestedField(data, fieldPath) == getNestedFrom(data.v, fieldPath, 1)

\* reflect.DeepEqual: the dynamic types must agree, then the contents.
RECURSIVE compareEqual(_, _)
compareEqual(fieldValue, filterValue) ==
    /\ fieldValue.t = filterValue.t
    /\ IF fieldValue.t = "array"
       THEN /\ Len(fieldValue.v) = Len(filterValue.v)
            /\ \A i \in 1..Len(fieldValue.v) :
                   compareEqual(fieldValue.v[i], filterValue.v[i])
       ELSE fieldValue.v = filterValue.v

containsValue(filterValue, fieldValue) ==
    /\ filterValue.t = "array"
    /\ \E i \in 1..Len(filterValue.v) : compareEqual(fieldValue, filterValue.v[i])

\* strings.Contains
StringsContains(s, sub) ==
    \E k \in 0..(Len(s) - Len(sub)) : SubSeq(s, k + 1, k + Len(sub)) = sub

containsString(fieldValue, filterValue) ==
    /\ fieldValue.t = "str" /\ filterValue.t = "str"
    /\ StringsContains(fieldValue.v, filterValue.v)

\* regexp.Compile on the pattern subset used here: literal characters,
\* "^" in front, "$" at the end; an unclosed "[" does not compile.
RegexCompiles(p) ==
    \A i \in 1..Len(p) : p[i] = "[" => \E j \in (i + 1)..Len(p) : p[j] = "]"

RegexMatchString(p, s) ==
    LET front == Len(p) > 0 /\ p[1] = "^"
        back == Len(p) > 0 /\ p[Len(p)] = "$"
        lit == SubSeq(p, IF front THEN 2 ELSE 1, IF back THEN Len(p) - 1 ELSE Len(p))
    IN \E k \in 0..(Len(s) - Len(lit)) :
          /\ SubSeq(s, k + 1, k + Len(lit)) = lit
          /\ front => k = 0
          /\ back => k + Len(lit) = Len(s)

matchesRegex(fieldValue, filterValue) ==
    /\ fieldValue.t = "str" /\ filterValue.t = "str"
    /\ RegexCompiles(filterValue.v)
    /\ RegexMatchString(filterValue.v, fieldValue.v)

Digits == <<"0", "1", "2", "3", "4", "5", "6", "7", "8", "9">>
IsDigit(c) == \E d \in 1..10 : Digits[d] = c
DigitVal(c) == (CHOOSE d \in 1..10 : Digits[d] = c) - 1

RECURSIVE ParseDigits(_, _)
ParseDigits(s, n) ==
    IF n = 0 THEN 0 ELSE 10 * ParseDigits(s, n - 1) + DigitVal(s[n])

\* toFloat64: every integer and float width converts; a string goes
\* through strconv.ParseFloat; anything else is an error.
toFloat64OK(value) ==
    \/ value.t \in NumericTags
    \/ /\ value.t = "str"
       /\ Len(value.v) > 0
       /\ \A i \in 1..Len(value.v) : IsDigit(value.v[i])

toFloat64(value) ==
    IF value.t \in NumericTags THEN value.v ELSE ParseDigits(value.v, Len(value.v))

compareGreater(fieldValue, filterValue) ==
    /\ toFloat64OK(fieldValue) /\ toFloat64OK(filterValue)
    /\ toFloat64(fieldValue) > toFloat64(filterValue)

compareLess(fieldValue, filterValue) ==
    /\ toFloat64OK(fieldValue) /\ toFloat64OK(filterValue)
    /\ toFloat64(fieldValue) < toFloat64(filterValue)

compareGreaterEqual(fieldValue, filterValue) ==
    /\ toFloat64OK(fieldValue) /\ toFloat64OK(filterValue)
    /\ toFloat64(fieldValue) >= toFloat64(filterValue)

compareLessEqual(fieldValue, filterValue) ==
    /\ toFloat64OK(fieldValue) /\ toFloat64OK(filterValue)
    /\ toFloat64(fieldValue) <= toFloat64(filterValue)

evaluateFilter(filter, data) ==
    LET fieldValue == getNestedField(data, filter.Field) IN
    CASE filter.Operator = "equals" -> compareEqual(fieldValue, filter.Value)
      [] filter.Operator = "not_equals" -> ~compareEqual(fieldValue, filter.Value)
      [] filter.Operator = "in" -> containsValue(filter.Value, fieldValue)
      [] filter.Operator = "not_in" -> ~containsValue(filter.Value, fieldValue)
      [] filter.Operator = "contains" -> containsString(fieldValue, filter.Value)
      [] filter.Operator = "regex" -> matchesRegex(fieldValue, filter.Value)
      [] filter.Operator = "greater_than" -> compareGreater(fieldValue, filter.Value)
      [] filter.Operator = "greater_than_or_equal" ->
             compareGreaterEqual(fieldValue, filter.Value)
      [] filter.Operator = "less_than" -> compareLess(fieldValue, filter.Value)
      [] filter.Operator = "less_than_or_equal" ->
             compareLessEqual(fieldValue, filter.Value)
      [] filter.Operator = "exists" ->
             LET exists == fieldValue.t # "nil" IN
             IF filter.Value.t = "bool" THEN exists = filter.Value.v ELSE exists
      [] OTHER -> FALSE

\* filter.New: an empty mode becomes ModeAnd.
NewEngine(filters, mode) ==
    [present |-> TRUE, filters |-> filters,
     mode |-> IF mode = "" THEN ModeAnd ELSE mode]

NoEngine == [present |-> FALSE, filters |-> <<>>, mode |-> ""]

\* Engine.Matches without the test for an empty filter list.
MatchesNoEmptyCase(e, data) ==
    CASE e.mode = ModeAnd ->
             \A i \in 1..Len(e.filters) : evaluateFilter(e.filters[i], data)
      [] e.mode = ModeOr ->
             \E i \in 1..Len(e.filters) : evaluateFilter(e.filters[i], data)
      [] OTHER -> FALSE

\* Engine.Matches
Matches(e, data) ==
    IF Len(e.filters) = 0 THEN TRUE
    ELSE CASE e.mode = ModeAnd ->
                 \A i \in 1..Len(e.filters) : evaluateFilter(e.filters[i], data)
           [] e.mode = ModeOr ->
                 \E i \in 1..Len(e.filters) : evaluateFilter(e.filters[i], data)
           [] OTHER -> FALSE

\* Validate's result: nil, or the error of filter number index (from 0).
NoError == [index |-> -1, msg |-> ""]

\* Validate without the check of the value of exists.
ValidateFilterAnyExists(filter) ==
    IF filter.Field = <<"">> THEN "field cannot be empty"
    ELSE IF filter.Operator \notin SupportedOperators THEN "unsupported operator"
    ELSE IF filter.Operator \in {"in", "not_in"} /\ filter.Value.t # "array"
    THEN "operator requires an array value"
    ELSE IF filter.Operator = "regex" /\ filter.Value.t # "str"
    THEN "regex operator requires a string value"
    ELSE IF filter.Operator = "regex" /\ ~RegexCompiles(filter.Value.v)
    THEN "invalid regex"
    ELSE ""

\* The checks Validate makes on one filter, in the order it makes them.
ValidateFilter(filter) ==
    IF filter.Field = <<"">> THEN "field cannot be empty"
    ELSE IF filter.Operator \notin SupportedOperators THEN "unsupported operator"
    ELSE IF filter.Operator \in {"in", "not_in"} /\ filter.Value.t # "array"
    THEN "operator requires an array value"
    ELSE IF filter.Operator = "regex" /\ filter.Value.t # "str"
    THEN "regex operator requires a string value"
    ELSE IF filter.Operator = "regex" /\ ~RegexCompiles(filter.Value.v)
    THEN "invalid regex"
    ELSE IF filter.Operator = "exists" /\ filter.Value.t # "bool"
    THEN "exists operator requires a boolean value"
    ELSE ""

RECURSIVE ValidateFrom(_, _)
ValidateFrom(filters, i) ==
    IF i > Len(filters) THEN NoError
    ELSE IF ValidateFilter(filters[i]) # ""
    THEN [index |-> i - 1, msg |-> ValidateFilter(filters[i])]
    ELSE ValidateFrom(filters, i + 1)

Validate(filters) == ValidateFrom(filters, 1)

----------------------------------------------------------------------------
(* internal/iterator/manager.go: helpers *)

\* strings.ToLower on the spellings that occur in the inputs.
ToLower(x) ==
    CASE x = "AND" -> "and"
      [] x = "And" -> "and"
      [] x = "OR" -> "or"
      [] x = "Or" -> "or"
      [] x = "EQ" -> "eq"
      [] x = "Equals" -> "equals"
      [] OTHER -> x

\* normalizeFilterMode that keeps a mode it does not know.
normalizeFilterModeKeepingUnknown(mode) ==
    CASE ToLower(mode) = ModeAnd -> ModeAnd
      [] ToLower(mode) = ModeOr -> ModeOr
      [] OTHER -> mode

normalizeFilterMode(mode) ==
    CASE ToLower(mode) = ModeAnd -> ModeAnd
      [] ToLower(mode) = ModeOr -> ModeOr
      [] OTHER -> ModeAnd

normalizeOperator(op) ==
    CASE ToLower(op) = "eq" -> "equals"
      [] ToLower(op) = "ne" -> "not_equals"
      [] ToLower(op) = "gt" -> "greater_than"
      [] ToLower(op) = "lt" -> "less_than"
      [] ToLower(op) = "gte" -> "greater_than_or_equal"
      [] ToLower(op) = "lte" -> "less_than_or_equal"
      [] OTHER -> ToLower(op)

NormalizeFilters(filters) ==
    [i \in 1..Len(filters) |->
        [filters[i] EXCEPT !.Operator = normalizeOperator(filters[i].Operator)]]

\* generateID that hands out the same ID every time.
generateIDFixed(h) == 1

\* generateID: 16 random bytes; a fresh value, here the next unused number.
generateID(h) == Len(h) + 1

\* The ManagedIterator built by createIteratorNoStart.
NewIterator(h, reader, database, network, filters, filterMode, t) ==
    LET normalizedMode == normalizeFilterMode(filterMode)
        norm == NormalizeFilters(filters)
    IN [ID |-> generateID(h),
        Reader |-> reader,
        Database |-> database,
        Network |-> network,
        Filters |-> IF Len(filters) > 0 THEN norm ELSE filters,
        FilterMode |-> normalizedMode,
        FilterEngine |-> IF Len(filters) > 0
                         THEN NewEngine(norm, normalizedMode) ELSE NoEngine,
        Created |-> t,
        LastAccess |-> t,
        LastNetwork |-> ZeroPrefix,
        Processed |-> 0,
        Matched |-> 0]

----------------------------------------------------------------------------
(* Resume token codec: base64 over JSON *)

\* json.Marshal of an any value: every Go number becomes a JSON number.
RECURSIVE MarshalValue(_)
MarshalValue(val) ==
    CASE val.t \in NumericTags -> [t |-> "number", v |-> val.v]
      [] val.t = "array" ->
             [t |-> "array", v |-> [i \in 1..Len(val.v) |-> MarshalValue(val.v[i])]]
      [] OTHER -> val

\* json.Unmarshal into any: every JSON number becomes a float64.
RECURSIVE UnmarshalValue(_)
UnmarshalValue(j) ==
    CASE j.t = "number" -> VFloat(j.v)
      [] j.t = "array" ->
             VArr([i \in 1..Len(j.v) |-> UnmarshalValue(j.v[i])])
      [] OTHER -> j

MarshalFilters(filters) ==
    [i \in 1..Len(filters) |->
        [field |-> filters[i].Field, operator |-> filters[i].Operator,
         value |-> MarshalValue(filters[i].Value)]]

UnmarshalFilters(js) ==
    [i \in 1..Len(js) |->
        Filter(js[i].field, js[i].operator, UnmarshalValue(js[i].value))]

\* json.Marshal(ResumeToken)
MarshalToken(token) ==
    [object |-> TRUE,
     last_network |-> token.LastNetwork,
     database |-> token.Database,
     network |-> token.Network,
     filter_mode |-> token.FilterMode,
     filters |-> MarshalFilters(token.Filters),
     processed |-> token.Processed,
     matched |-> token.Matched]

\* json.Unmarshal(data, &token)
UnmarshalToken(j) ==
    [LastNetwork |-> j.last_network,
     Database |-> j.database,
     Network |-> j.network,
     FilterMode |-> j.filter_mode,
     Filters |-> UnmarshalFilters(j.filters),
     Processed |-> j.processed,
     Matched |-> j.matched]

NotJSON ==
    [object |-> FALSE, last_network |-> EmptyString, database |-> "",
     network |-> EmptyString, filter_mode |-> "", filters |-> <<>>,
     processed |-> 0, matched |-> 0]

\* base64.StdEncoding.EncodeToString / DecodeString
Base64Encode(data) == [b64 |-> TRUE, data |-> data]

NotBase64 == [b64 |-> FALSE, data |-> NotJSON]

generateResumeToken(iterator) ==
    Base64Encode(MarshalToken(
        [Database |-> iterator.Database,
         Network |-> PrefixString(iterator.Network),
         Filters |-> iterator.Filters,
         FilterMode |-> iterator.FilterMode,
         Processed |-> iterator.Processed,
         Matched |-> iterator.Matched,
         LastNetwork |-> IF iterator.LastNetwork.valid
                         THEN PrefixString(iterator.LastNetwork)
                         ELSE EmptyString]))

parseResumeTokenOK(tokenStr) == tokenStr.b64 /\ tokenStr.data.object

parseResumeToken(tokenStr) == UnmarshalToken(tokenStr.data)

----------------------------------------------------------------------------
(* Manager.Iterate, run alone: the range loop over NetworksWithin *)

NetworkResult(e) == [Network |-> e.prefix, Data |-> e.rec]

\* One pass of the loop body for entry i; st carries the loop's variables
\* (skipping, results, hasMore) and the iterator fields it updates.
RECURSIVE IterateLoop(_, _, _, _, _, _)
IterateLoop(trav, engine, skipUntil, maxResults, i, st) ==
    IF i > Len(trav) THEN st
    ELSE LET e == trav[i] IN
         IF st.skipping /\ e.prefix # skipUntil
         THEN IterateLoop(trav, engine, skipUntil, maxResults, i + 1, st)
         ELSE LET counted == [st EXCEPT !.skipping = FALSE,
                                        !.Processed = @ + 1,
                                        !.LastNetwork = e.prefix]
              IN IF e.rec = Undecodable
                 THEN IterateLoop(trav, engine, skipUntil, maxResults, i + 1, counted)
                 ELSE IF engine.present /\ ~Matches(engine, e.rec)
                 THEN IF Len(counted.results) >= maxResults
                      THEN [counted EXCEPT !.hasMore = TRUE]
                      ELSE IterateLoop(trav, engine, skipUntil, maxResults,
                                       i + 1, counted)
                 ELSE LET taken == [counted EXCEPT
                                       !.Matched = @ + 1,
                                       !.results = Append(@, NetworkResult(e))]
                      IN IF Len(taken.results) >= maxResults
                         THEN [taken EXCEPT !.hasMore = TRUE]
                         ELSE IterateLoop(trav, engine, skipUntil, maxResults,
                                          i + 1, taken)

\* Iterate that skips even when the iterator has no last network yet.
IterateRunAlwaysSkipping(d, iterator, maxResults) ==
    LET skipUntil == iterator.LastNetwork
    IN IterateLoop(NetworksWithin(d, iterator.Network), iterator.FilterEngine,
                   skipUntil, maxResults, 1,
                   [skipping |-> TRUE,
                    results |-> <<>>,
                    hasMore |-> FALSE,
                    Processed |-> iterator.Processed,
                    Matched |-> iterator.Matched,
                    LastNetwork |-> iterator.LastNetwork])

\* Iterate over a traversal from which the records that fail to decode
\* have been dropped before the loop sees them.
IterateRunDroppingUndecoded(d, iterator, maxResults) ==
    LET skipUntil == iterator.LastNetwork
        decodes(e) == e.rec # Undecodable
    IN IterateLoop(SelectSeq(NetworksWithin(d, iterator.Network), decodes),
                   iterator.FilterEngine, skipUntil, maxResults, 1,
                   [skipping |-> skipUntil.valid,
                    results |-> <<>>,
                    hasMore |-> FALSE,
                    Processed |-> iterator.Processed,
                    Matched |-> iterator.Matched,
                    LastNetwork |-> iterator.LastNetwork])

\* Iterate that does not consult the filter engine.
IterateRunUnfiltered(d, iterator, maxResults) ==
    LET skipUntil == iterator.LastNetwork
    IN IterateLoop(NetworksWithin(d, iterator.Network), NoEngine,
                   skipUntil, maxResults, 1,
                   [skipping |-> skipUntil.valid,
                    results |-> <<>>,
                    hasMore |-> FALSE,
                    Processed |-> iterator.Processed,
                    Matched |-> iterator.Matched,
                    LastNetwork |-> iterator.LastNetwork])

\* Iterate that starts from the first network when the last network is not
\* in the traversal.
IterateRunRestarting(d, iterator, maxResults) ==
    LET skipUntil == iterator.LastNetwork
        trav == NetworksWithin(d, iterator.Network)
    IN IterateLoop(trav, iterator.FilterEngine, skipUntil, maxResults, 1,
                   [skipping |-> skipUntil.valid
                                 /\ \E k \in 1..Len(trav) : trav[k].prefix = skipUntil,
                    results |-> <<>>,
                    hasMore |-> FALSE,
                    Processed |-> iterator.Processed,
                    Matched |-> iterator.Matched,
                    LastNetwork |-> iterator.LastNetwork])

IterateRun(d, iterator, maxResults) ==
    LET skipUntil == iterator.LastNetwork
    IN IterateLoop(NetworksWithin(d, iterator.Network), iterator.FilterEngine,
                   skipUntil, maxResults, 1,
                   [skipping |-> skipUntil.valid,
                    results |-> <<>>,
                    hasMore |-> FALSE,
                    Processed |-> iterator.Processed,
                    Matched |-> iterator.Matched,
                    LastNetwork |-> iterator.LastNetwork])

\* The iterator after a batch that also narrows its network to the last
\* network processed.
IterateAfterNarrowing(d, iterator, maxResults, t) ==
    LET st == IterateRun(d, iterator, maxResults)
    IN [iterator EXCEPT !.LastAccess = t,
                        !.Processed = st.Processed,
                        !.Matched = st.Matched,
                        !.LastNetwork = st.LastNetwork,
                        !.Network = IF st.LastNetwork.valid THEN st.LastNetwork
                                    ELSE @]

\* The iterator after the batch.
IterateAfter(d, iterator, maxResults, t) ==
    LET st == IterateRun(d, iterator, maxResults)
    IN [iterator EXCEPT !.LastAccess = t,
                        !.Processed = st.Processed,
                        !.Matched = st.Matched,
                        !.LastNetwork = st.LastNetwork]

\* The IterationResult whose token is made before the batch is taken.
IterationResultTokenFirst(d, iterator, maxResults, t) ==
    LET st == IterateRun(d, iterator, maxResults)
        after == IterateAfter(d, iterator, maxResults, t)
    IN [Results |-> st.results,
        IteratorID |-> after.ID,
        ResumeToken |-> generateResumeToken(iterator),
        HasMore |-> st.hasMore,
        TotalProcessed |-> after.Processed,
        TotalMatched |-> after.Matched]

\* The IterationResult returned.
IterationResult(d, iterator, maxResults, t) ==
    LET st == IterateRun(d, iterator, maxResults)
        after == IterateAfter(d, iterator, maxResults, t)
    IN [Results |-> st.results,
        IteratorID |-> after.ID,
        ResumeToken |-> generateResumeToken(after),
        HasMore |-> st.hasMore,
        TotalProcessed |-> after.Processed,
        TotalMatched |-> after.Matched]

NoResult ==
    [Results |-> <<>>, IteratorID |-> 0, ResumeToken |-> NotBase64,
     HasMore |-> FALSE, TotalProcessed |-> 0, TotalMatched |-> 0]

----------------------------------------------------------------------------
(* Inputs of the manager calls *)

DatabaseName == "GeoLite2-City.mmdb"

CountryField == <<"country", "iso_code">>

FilterUS == Filter(CountryField, "eq", VStr(US))
FilterAsn == Filter(<<"asn">>, "gte", VInt(2))

\* (network, filters, filter mode) of the CreateIterator calls.
BindingInputs ==
    { <<Network24, <<>>, "and">>,
      <<Network24, <<FilterUS>>, "OR">>,
      <<Prefix(0, 31), <<FilterAsn>>, "">> }

\* maxResults is int(request.GetFloat(...)): nothing keeps it positive.
CapInputs == {-1, 0, 1, 2}

Snapshots == UNION {[1..n -> RecordInputs] : n \in 0..MaxNets}

NilIterator ==
    [ID |-> 0, Reader |-> 0, Database |-> "", Network |-> ZeroPrefix,
     Filters |-> <<>>, FilterMode |-> "", FilterEngine |-> NoEngine,
     Created |-> 0, LastAccess |-> 0, LastNetwork |-> ZeroPrefix,
     Processed |-> 0, Matched |-> 0]

NoCall ==
    [op |-> "none", ptr |-> 0, cap |-> 0, token |-> NotBase64,
     pre |-> NilIterator, err |-> "", res |-> NoResult,
     id |-> 0, found |-> FALSE, at |-> 0, mode |-> ""]

NoChain ==
    [active |-> FALSE, linear |-> TRUE, poscaps |-> TRUE, root |-> 0, ptr |-> 0,
     members |-> {}, toks |-> {}, tok |-> NotBase64, acc |-> <<>>,
     done |-> FALSE, prev |-> [P |-> 0, M |-> 0], cur |-> [P |-> 0, M |-> 0]]

\* An Iterate call in flight: its position and its local variables.
IdleCall ==
    [pc |-> "idle", ptr |-> 0, cap |-> 0, i |-> 0, skipUntil |-> ZeroPrefix,
     skipping |-> FALSE, results |-> <<>>, hasMore |-> FALSE,
     processed |-> 0, matched |-> 0, res |-> NoResult]

Callers == {1, 2}

NoTask == [c \in Callers |-> IdleCall]

\* A registry operation in flight in a goroutine.
IdleOp ==
    [pc |-> "idle", op |-> "none", id |-> 0, ptr |-> 0, token |-> NotBase64,
     raced |-> {}, removed |-> FALSE]

Goroutines == {1, 2}

NoOps == [g \in Goroutines |-> IdleOp]

\* New: the stop channel is open and no cleanup goroutine has been started.
\* started and stops count the StartCleanup and StopCleanup calls made.
NoCleanup == [stop |-> "open", goroutines |-> 0, started |-> 0, stops |-> 0]

\* Manager.mu with nobody holding it.
Unlocked == [writer |-> 0, readers |-> {}]

\* No call into the filter package yet.
NoEval ==
    [fn |-> "none", filters |-> <<>>, mode |-> "", data |-> VNil,
     out |-> FALSE, err |-> NoError]

\* No lookup_network request answered yet.
NoReply == [code |-> "none"]

\* client.DownloadResponse: the MD5 the server states, the MD5 of the bytes
\* the Reader delivers, and whether there is an update at all.
Response(available, md5, body, modified) ==
    [UpdateAvailable |-> available, MD5 |-> md5, body |-> body,
     LastModified |-> modified]

NoResponse == Response(FALSE, "", "", 0)

\* UpdateResult{Database: edition, Updated: false}
UpdateResult(edition) ==
    [Database |-> edition, Updated |-> FALSE, Error |-> "", LastUpdate |-> 0,
     Size |-> 0]

Editions == {"GeoLite2-City"}

\* NewUpdater in an empty database directory: no checksum, no file.  A
\* missing map key and a missing file read as "".
NoUpdater ==
    [checksums |-> [e \in Editions |-> ""],
     saved |-> [e \in Editions |-> ""],
     installed |-> [e \in Editions |-> ""],
     temp |-> [e \in Editions |-> ""],
     calls |-> 0,
     edition |-> "", response |-> NoResponse, fail |-> "none",
     result |-> UpdateResult("")]

EmptyMap == [k \in {} |-> 0]

Put(m, k, val) == [x \in DOMAIN m \cup {k} |-> IF x = k THEN val ELSE m[x]]
Delete(m, k) == [x \in DOMAIN m \ {k} |-> m[x]]

----------------------------------------------------------------------------
(* Manager operations, each call atomic (calls made one at a time) *)

\* The reader of the one loaded snapshot.
TheReader == 1

CreateIterator(network, filters, filterMode) ==
    /\ nops < MaxOps
    /\ Len(heap) < MaxIters
    /\ LET it == NewIterator(heap, TheReader, DatabaseName, network, filters,
                             filterMode, now)
           ptr == Len(heap) + 1
       IN /\ heap' = Append(heap, it)
          /\ iterators' = Put(iterators, it.ID, ptr)
          /\ last' = [NoCall EXCEPT !.op = "CreateIterator", !.ptr = ptr,
                                    !.mode = filterMode]
          /\ chain' = IF chain.active THEN chain
                      ELSE [NoChain EXCEPT !.active = TRUE, !.root = ptr,
                                           !.ptr = ptr, !.members = {ptr}]
    /\ nops' = nops + 1
    /\ UNCHANGED <<updVars, reqVars, regVars, db, now, issued, task, dbVars>>

\* ResumeIterator that leaves the counters of the new iterator at zero.
ResumedIteratorCountersReset(h, reader, resumeToken, t) ==
    LET created == NewIterator(h, reader, resumeToken.Database,
                               ParsePrefix(resumeToken.Network),
                               resumeToken.Filters, resumeToken.FilterMode, t)
    IN IF resumeToken.LastNetwork # EmptyString
          /\ ParsePrefixOK(resumeToken.LastNetwork)
       THEN [created EXCEPT !.LastNetwork = ParsePrefix(resumeToken.LastNetwork)]
       ELSE created

\* ResumeIterator that does not restore the last network.
ResumedIteratorNoLastNetwork(h, reader, resumeToken, t) ==
    LET created == NewIterator(h, reader, resumeToken.Database,
                               ParsePrefix(resumeToken.Network),
                               resumeToken.Filters, resumeToken.FilterMode, t)
    IN [created EXCEPT !.Processed = resumeToken.Processed,
                       !.Matched = resumeToken.Matched]

\* The iterator ResumeIterator returns: a new iterator with the token's
\* counters and, when the token has one, its last network.
ResumedIterator(h, reader, resumeToken, t) ==
    LET created == NewIterator(h, reader, resumeToken.Database,
                               ParsePrefix(resumeToken.Network),
                               resumeToken.Filters, resumeToken.FilterMode, t)
        counted == [created EXCEPT !.Processed = resumeToken.Processed,
                                   !.Matched = resumeToken.Matched]
    IN IF resumeToken.LastNetwork # EmptyString
          /\ ParsePrefixOK(resumeToken.LastNetwork)
       THEN [counted EXCEPT !.LastNetwork = ParsePrefix(resumeToken.LastNetwork)]
       ELSE counted

\* Rejecting ResumeIterator that does not look at the network of the token.
ResumeErrorIgnoringNetwork(token) ==
    IF ~parseResumeTokenOK(token) THEN "invalid resume token"
    ELSE LET resumeToken == parseResumeToken(token) IN
         IF resumeToken.LastNetwork # EmptyString
                 /\ ~ParsePrefixOK(resumeToken.LastNetwork)
         THEN "invalid last network in resume token"
         ELSE ""

ResumeError(token) ==
    IF ~parseResumeTokenOK(token) THEN "invalid resume token"
    ELSE LET resumeToken == parseResumeToken(token) IN
         IF ~ParsePrefixOK(resumeToken.Network)
         THEN "invalid network in resume token"
         ELSE IF resumeToken.LastNetwork # EmptyString
                 /\ ~ParsePrefixOK(resumeToken.LastNetwork)
         THEN "invalid last network in resume token"
         ELSE ""

ResumeIterator(token) ==
    /\ nops < MaxOps
    /\ Len(heap) < MaxIters
    /\ LET err == ResumeError(token)
           \* the iterator is registered before the last network is parsed
           registers == err \in {"", "invalid last network in resume token"}
           it == ResumedIterator(heap, TheReader, parseResumeToken(token), now)
           ptr == Len(heap) + 1
       IN /\ heap' = IF registers THEN Append(heap, it) ELSE heap
          /\ iterators' = IF registers THEN Put(iterators, it.ID, ptr) ELSE iterators
          /\ last' = [NoCall EXCEPT !.op = "ResumeIterator", !.token = token,
                                    !.err = err,
                                    !.ptr = IF err = "" THEN ptr ELSE 0]
          /\ chain' = IF err = "" /\ chain.active /\ token \in chain.toks
                      THEN [chain EXCEPT
                              !.linear = @ /\ token = chain.tok,
                              !.ptr = ptr,
                              !.members = @ \cup {ptr},
                              !.prev = chain.cur,
                              !.cur = [P |-> it.Processed, M |-> it.Matched]]
                      ELSE chain
    /\ nops' = nops + 1
    /\ UNCHANGED <<updVars, reqVars, regVars, db, now, issued, task, dbVars>>

\* Iterate that answers a nil iterator with an empty result and no error.
IterateNilAccepted(ptr, maxResults) ==
    /\ nops < MaxOps
    /\ IF ptr = 0
       THEN /\ last' = [NoCall EXCEPT !.op = "Iterate", !.cap = maxResults,
                                      !.err = ""]
            /\ UNCHANGED <<heap, issued, chain>>
       ELSE IF maxResults < 0
       THEN /\ heap' = [heap EXCEPT ![ptr].LastAccess = now]
            /\ last' = [NoCall EXCEPT !.op = "Iterate", !.ptr = ptr,
                                      !.cap = maxResults, !.pre = heap[ptr],
                                      !.err = "panic: makeslice: cap out of range"]
            /\ UNCHANGED <<issued, chain>>
       ELSE LET res == IterationResult(db, heap[ptr], maxResults, now)
            IN /\ heap' = [heap EXCEPT ![ptr] = IterateAfter(db, @, maxResults, now)]
               /\ last' = [NoCall EXCEPT !.op = "Iterate", !.ptr = ptr,
                                         !.cap = maxResults, !.pre = heap[ptr],
                                         !.res = res]
               /\ issued' = issued \cup {res.ResumeToken}
               /\ chain' =
                     IF chain.active /\ ptr \in chain.members
                     THEN [chain EXCEPT
                             !.linear = @ /\ ptr = chain.ptr,
                             !.poscaps = @ /\ maxResults > 0,
                             !.tok = res.ResumeToken,
                             !.toks = @ \cup {res.ResumeToken},
                             !.acc = IF chain.done THEN @
                                     ELSE @ \o [i \in 1..Len(res.Results) |->
                                                   res.Results[i].Network],
                             !.done = @ \/ ~res.HasMore,
                             !.prev = chain.cur,
                             !.cur = [P |-> res.TotalProcessed,
                                      M |-> res.TotalMatched]]
                     ELSE chain
    /\ nops' = nops + 1
    /\ UNCHANGED <<updVars, reqVars, regVars, db, iterators, now, task, dbVars>>

\* Iterate(iterator, maxResults); ptr 0 is the nil iterator.  A negative
\* maxResults makes the make([]NetworkResult, 0, maxResults) panic after
\* LastAccess has been written.
Iterate(ptr, maxResults) ==
    /\ nops < MaxOps
    /\ IF ptr = 0
       THEN /\ last' = [NoCall EXCEPT !.op = "Iterate", !.cap = maxResults,
                                      !.err = "iterator cannot be nil"]
            /\ UNCHANGED <<heap, issued, chain>>
       ELSE IF maxResults < 0
       THEN /\ heap' = [heap EXCEPT ![ptr].LastAccess = now]
            /\ last' = [NoCall EXCEPT !.op = "Iterate", !.ptr = ptr,
                                      !.cap = maxResults, !.pre = heap[ptr],
                                      !.err = "panic: makeslice: cap out of range"]
            /\ UNCHANGED <<issued, chain>>
       ELSE LET res == IterationResult(db, heap[ptr], maxResults, now)
            IN /\ heap' = [heap EXCEPT ![ptr] = IterateAfter(db, @, maxResults, now)]
               /\ last' = [NoCall EXCEPT !.op = "Iterate", !.ptr = ptr,
                                         !.cap = maxResults, !.pre = heap[ptr],
                                         !.res = res]
               /\ issued' = issued \cup {res.ResumeToken}
               /\ chain' =
                     IF chain.active /\ ptr \in chain.members
                     THEN [chain EXCEPT
                             !.linear = @ /\ ptr = chain.ptr,
                             !.poscaps = @ /\ maxResults > 0,
                             !.tok = res.ResumeToken,
                             !.toks = @ \cup {res.ResumeToken},
                             !.acc = IF chain.done THEN @
                                     ELSE @ \o [i \in 1..Len(res.Results) |->
                                                   res.Results[i].Network],
                             !.done = @ \/ ~res.HasMore,
                             !.prev = chain.cur,
                             !.cur = [P |-> res.TotalProcessed,
                                      M |-> res.TotalMatched]]
                     ELSE chain
    /\ nops' = nops + 1
    /\ UNCHANGED <<updVars, reqVars, regVars, db, iterators, now, task, dbVars>>

----------------------------------------------------------------------------
(* Spec: one client at a time calling the iterator manager *)

Init ==
    /\ db \in Snapshots
    /\ heap = <<>>
    /\ iterators = EmptyMap
    /\ now = 0
    /\ issued = {}
    /\ last = NoCall
    /\ chain = NoChain
    /\ nops = 0
    /\ task = NoTask
    /\ readers = EmptyMap
    /\ databases = EmptyMap
    /\ rstate = <<>>
    /\ held = {}
    /\ cleanup = NoCleanup
    /\ mu = Unlocked
    /\ ops = NoOps
    /\ eval = NoEval
    /\ reply = NoReply
    /\ updater = NoUpdater

DoCreate == \E b \in BindingInputs : CreateIterator(b[1], b[2], b[3])
DoResume == \E t \in issued \cup {NotBase64} : ResumeIterator(t)
DoIterate == \/ \E p \in 1..Len(heap), c \in CapInputs : Iterate(p, c)
             \/ Iterate(0, 1)

Next == DoCreate \/ DoResume \/ DoIterate

Spec == Init /\ [][Next]_vars

----------------------------------------------------------------------------
(* SpecConc: two callers running Iterate on the same iterator at once.      *)
(* Each step is one access to the iterator's shared fields: the accessor   *)
(* methods take iter.mu for one read or write, nothing spans the call.     *)

\* The iterator both callers hold.
Shared == 1

ConcCaps == {1, 2}

ConcCreate(network, filters, filterMode) ==
    /\ heap = <<>>
    /\ LET it == NewIterator(heap, TheReader, DatabaseName, network, filters,
                             filterMode, now)
       IN /\ heap' = <<it>>
          /\ iterators' = Put(iterators, it.ID, Shared)
    /\ UNCHANGED <<updVars, reqVars, regVars, db, now, issued, last, chain, nops, task, dbVars>>

\* Iterate is entered: LastAccess is written without a lock, results is made.
CallIterate(c, maxResults) ==
    /\ Len(heap) = 1
    /\ task[c].pc = "idle"
    /\ heap' = [heap EXCEPT ![Shared].LastAccess = now]
    /\ task' = [task EXCEPT ![c] = [IdleCall EXCEPT !.pc = "getLastNetwork",
                                                      !.ptr = Shared,
                                                      !.cap = maxResults]]
    /\ UNCHANGED <<updVars, reqVars, regVars, db, iterators, now, issued, last, chain, nops, dbVars>>

\* skipUntil := iterator.getLastNetwork()
StepGetLastNetwork(c) ==
    /\ task[c].pc = "getLastNetwork"
    /\ task' = [task EXCEPT ![c].skipUntil = heap[task[c].ptr].LastNetwork,
                            ![c].skipping = heap[task[c].ptr].LastNetwork.valid,
                            ![c].i = 1,
                            ![c].pc = "range"]
    /\ UNCHANGED <<updVars, reqVars, regVars, iterVars, dbVars>>

\* The next entry the range loop does not skip, 0 when the range is over.
NextCounted(trav, call) ==
    LET live == {j \in call.i..Len(trav) :
                    ~(call.skipping /\ trav[j].prefix # call.skipUntil)}
    IN IF live = {} THEN 0 ELSE CHOOSE j \in live : \A k \in live : j <= k

\* incrementProcessed on a counter that all iterators share.
StepIncrementProcessedOfAll(c) ==
    /\ task[c].pc = "range"
    /\ LET trav == NetworksWithin(db, heap[task[c].ptr].Network)
           j == NextCounted(trav, task[c])
       IN IF j = 0
          THEN /\ task' = [task EXCEPT ![c].pc = "tokenCounters"]
               /\ UNCHANGED heap
          ELSE /\ heap' = [p \in 1..Len(heap) |->
                              [heap[p] EXCEPT !.Processed = @ + 1]]
               /\ task' = [task EXCEPT ![c].i = j, ![c].skipping = FALSE,
                                       ![c].pc = "setLastNetwork"]
    /\ UNCHANGED <<updVars, reqVars, regVars, db, iterators, now, issued, last, chain, nops, dbVars>>

\* The step without the incrementProcessed call.
StepIncrementProcessedLeftOut(c) ==
    /\ task[c].pc = "range"
    /\ LET trav == NetworksWithin(db, heap[task[c].ptr].Network)
           j == NextCounted(trav, task[c])
       IN IF j = 0
          THEN /\ task' = [task EXCEPT ![c].pc = "tokenCounters"]
               /\ UNCHANGED heap
          ELSE /\ UNCHANGED heap
               /\ task' = [task EXCEPT ![c].i = j, ![c].skipping = FALSE,
                                       ![c].pc = "setLastNetwork"]
    /\ UNCHANGED <<updVars, reqVars, regVars, db, iterators, now, issued, last, chain, nops, dbVars>>

\* Skip to the next entry to count, then iterator.incrementProcessed().
StepIncrementProcessed(c) ==
    /\ task[c].pc = "range"
    /\ LET trav == NetworksWithin(db, heap[task[c].ptr].Network)
           j == NextCounted(trav, task[c])
       IN IF j = 0
          THEN /\ task' = [task EXCEPT ![c].pc = "tokenCounters"]
               /\ UNCHANGED heap
          ELSE /\ heap' = [heap EXCEPT ![task[c].ptr].Processed = @ + 1]
               /\ task' = [task EXCEPT ![c].i = j, ![c].skipping = FALSE,
                                       ![c].pc = "setLastNetwork"]
    /\ UNCHANGED <<updVars, reqVars, regVars, db, iterators, now, issued, last, chain, nops, dbVars>>

\* Decode, iterator.setLastNetwork(result.Prefix()), then the filter.
StepSetLastNetwork(c) ==
    /\ task[c].pc = "setLastNetwork"
    /\ LET trav == NetworksWithin(db, heap[task[c].ptr].Network)
           e == trav[task[c].i]
           engine == heap[task[c].ptr].FilterEngine
       IN /\ heap' = [heap EXCEPT ![task[c].ptr].LastNetwork = e.prefix]
          /\ task' =
               IF e.rec = Undecodable
               THEN [task EXCEPT ![c].i = @ + 1, ![c].pc = "range"]
               ELSE IF engine.present /\ ~Matches(engine, e.rec)
               THEN IF Len(task[c].results) >= task[c].cap
                    THEN [task EXCEPT ![c].hasMore = TRUE,
                                      ![c].pc = "tokenCounters"]
                    ELSE [task EXCEPT ![c].i = @ + 1, ![c].pc = "range"]
               ELSE [task EXCEPT ![c].pc = "incrementMatched"]
    /\ UNCHANGED <<updVars, reqVars, regVars, db, iterators, now, issued, last, chain, nops, dbVars>>

\* iterator.incrementMatched(), append, and the cap test.
StepIncrementMatched(c) ==
    /\ task[c].pc = "incrementMatched"
    /\ LET trav == NetworksWithin(db, heap[task[c].ptr].Network)
           results == Append(task[c].results, NetworkResult(trav[task[c].i]))
       IN /\ heap' = [heap EXCEPT ![task[c].ptr].Matched = @ + 1]
          /\ task' =
               IF Len(results) >= task[c].cap
               THEN [task EXCEPT ![c].results = results, ![c].hasMore = TRUE,
                                 ![c].pc = "tokenCounters"]
               ELSE [task EXCEPT ![c].results = results, ![c].i = @ + 1,
                                 ![c].pc = "range"]
    /\ UNCHANGED <<updVars, reqVars, regVars, db, iterators, now, issued, last, chain, nops, dbVars>>

\* generateResumeToken: processed, matched := iterator.getProcessedMatched()
StepTokenCounters(c) ==
    /\ task[c].pc = "tokenCounters"
    /\ task' = [task EXCEPT ![c].processed = heap[task[c].ptr].Processed,
                            ![c].matched = heap[task[c].ptr].Matched,
                            ![c].pc = "tokenLastNetwork"]
    /\ UNCHANGED <<updVars, reqVars, regVars, iterVars, dbVars>>

\* generateResumeToken: lastNetwork := iterator.getLastNetwork(); the token.
StepTokenLastNetwork(c) ==
    /\ task[c].pc = "tokenLastNetwork"
    /\ LET seen == [heap[task[c].ptr] EXCEPT !.Processed = task[c].processed,
                                        !.Matched = task[c].matched]
       IN task' = [task EXCEPT ![c].res.ResumeToken = generateResumeToken(seen),
                               ![c].pc = "totals"]
    /\ UNCHANGED <<updVars, reqVars, regVars, iterVars, dbVars>>

\* totalProcessed, totalMatched := iterator.getProcessedMatched(); return.
StepReturn(c) ==
    /\ task[c].pc = "totals"
    /\ task' = [task EXCEPT ![c].res.Results = task[c].results,
                            ![c].res.IteratorID = heap[task[c].ptr].ID,
                            ![c].res.HasMore = task[c].hasMore,
                            ![c].res.TotalProcessed = heap[task[c].ptr].Processed,
                            ![c].res.TotalMatched = heap[task[c].ptr].Matched,
                            ![c].pc = "done"]
    /\ UNCHANGED <<updVars, reqVars, regVars, iterVars, dbVars>>

DoConcCreate == \E b \in BindingInputs : ConcCreate(b[1], b[2], b[3])
DoCall == \E c \in Callers, m \in ConcCaps : CallIterate(c, m)
DoStep == \E c \in Callers :
             \/ StepGetLastNetwork(c)
             \/ StepIncrementProcessed(c)
             \/ StepSetLastNetwork(c)
             \/ StepIncrementMatched(c)
             \/ StepTokenCounters(c)
             \/ StepTokenLastNetwork(c)
             \/ StepReturn(c)

NextConc == DoConcCreate \/ DoCall \/ DoStep

SpecConc == Init /\ [][NextConc]_vars

----------------------------------------------------------------------------
(* SpecDB: the database manager reloading, removing and closing while      *)
(* iterators and handler calls hold readers obtained from it.              *)

\* A path is its sequence of elements; filepath.Base is the last one.
Base(path) == path[Len(path)]

PathInputs ==
    {<<"data", "GeoLite2-City.mmdb">>,
     <<"data", "sub", "GeoLite2-City.mmdb">>}

NameInputs == {Base(path) : path \in PathInputs}

Range(m) == {m[k] : k \in DOMAIN m}

\* The previous manager's loadDatabase: the replaced reader is closed.
loadDatabaseClosingExisting(path) ==
    LET reader == Len(rstate) + 1
        closed == IF path \in DOMAIN readers
                  THEN [rstate EXCEPT ![readers[path]] = "closed"]
                  ELSE rstate
    IN /\ rstate' = Append(closed, "open")
       /\ readers' = Put(readers, path, reader)
       /\ databases' = Put(databases, path, Base(path))

\* maxminddb.Open, then the reader and the Info stored under the path; an
\* existing reader for the path is replaced in the map and left open.
loadDatabase(path) ==
    LET reader == Len(rstate) + 1
    IN /\ rstate' = Append(rstate, "open")
       /\ readers' = Put(readers, path, reader)
       /\ databases' = Put(databases, path, Base(path))

LoadDatabase(path) ==
    /\ Len(rstate) < MaxReaders
    /\ loadDatabase(path)
    /\ UNCHANGED <<updVars, reqVars, regVars, iterVars, task, held>>

\* The first path ranged over whose Info has the display name; map order is
\* not fixed, so any such path.
RemoveDatabase(name) ==
    /\ \E path \in DOMAIN databases :
          /\ databases[path] = name
          /\ readers' = Delete(readers, path)
          /\ databases' = Delete(databases, path)
    /\ UNCHANGED <<updVars, reqVars, regVars, iterVars, task, rstate, held>>

RemoveDatabaseByPath(path) ==
    /\ readers' = Delete(readers, path)
    /\ databases' = Delete(databases, path)
    /\ UNCHANGED <<updVars, reqVars, regVars, iterVars, task, rstate, held>>

Close ==
    /\ readers' = EmptyMap
    /\ databases' = EmptyMap
    /\ UNCHANGED <<updVars, reqVars, regVars, iterVars, task, rstate, held>>

\* A tool handler obtains the reader for a display name and holds it.
GetReader(name) ==
    /\ \E path \in DOMAIN databases :
          /\ databases[path] = name
          /\ path \in DOMAIN readers
          /\ held' = held \cup {readers[path]}
    /\ UNCHANGED <<updVars, reqVars, regVars, iterVars, task, readers, databases, rstate>>

\* handleLookupNetwork goes on to CreateIterator with the reader it holds.
LookupNetworkCreate(reader) ==
    /\ reader \in held
    /\ Len(heap) < MaxIters
    /\ LET it == NewIterator(heap, reader, DatabaseName, Network24, <<>>,
                             "and", now)
       IN /\ heap' = Append(heap, it)
          /\ iterators' = Put(iterators, it.ID, Len(heap) + 1)
    /\ held' = held \ {reader}
    /\ UNCHANGED <<updVars, reqVars, regVars, db, now, issued, last, chain, nops, task, readers,
                   databases, rstate>>

\* A handler returns and drops the reader it held.
HandlerReturn(reader) ==
    /\ reader \in held
    /\ held' = held \ {reader}
    /\ UNCHANGED <<updVars, reqVars, regVars, iterVars, task, readers, databases, rstate>>

\* RemoveIterator that clears the whole registry.
RemoveIteratorClearing(id) ==
    /\ iterators' = EmptyMap
    /\ last' = [NoCall EXCEPT !.op = "RemoveIterator", !.id = id, !.at = now]
    /\ UNCHANGED <<updVars, reqVars, regVars, db, heap, now, issued, chain, nops, task, dbVars>>

\* delete(m.iterators, id): nothing happens for an ID that is not a key.
RemoveIterator(id) ==
    /\ iterators' = Delete(iterators, id)
    /\ last' = [NoCall EXCEPT !.op = "RemoveIterator", !.id = id, !.at = now]
    /\ UNCHANGED <<updVars, reqVars, regVars, db, heap, now, issued, chain, nops, task, dbVars>>

\* Readers something still points to: the manager's map, a registered
\* iterator, a handler call in flight.
Referenced ==
    Range(readers) \cup held \cup {heap[iterators[id]].Reader : id \in DOMAIN iterators}

\* The garbage collector finalizes a reader nothing references any more.
Collect(reader) ==
    /\ rstate[reader] = "open"
    /\ reader \notin Referenced
    /\ rstate' = [rstate EXCEPT ![reader] = "closed"]
    /\ UNCHANGED <<updVars, reqVars, regVars, iterVars, task, readers, databases, held>>

DoLoad == \E path \in PathInputs : LoadDatabase(path)
DoRemove == \E name \in NameInputs : RemoveDatabase(name)
DoRemoveByPath == \E path \in PathInputs : RemoveDatabaseByPath(path)
DoGetReader == \E name \in NameInputs : GetReader(name)
DoLookupNetwork == \E reader \in held : LookupNetworkCreate(reader)
DoReturn == \E reader \in held : HandlerReturn(reader)
DoRemoveIterator == \E id \in DOMAIN iterators : RemoveIterator(id)
DoCollect == \E reader \in 1..Len(rstate) : Collect(reader)

NextDB ==
    \/ DoLoad
    \/ DoRemove
    \/ DoRemoveByPath
    \/ Close
    \/ DoGetReader
    \/ DoLookupNetwork
    \/ DoReturn
    \/ DoRemoveIterator
    \/ DoCollect

\* The snapshot's content plays no part in the readers' life cycle.
InitDB == Init /\ db = <<RecUS, RecCA>>

SpecDB == InitDB /\ [][NextDB]_vars

----------------------------------------------------------------------------
(* SpecReg: the registry over time: lookups, removals and the expiry sweep, *)
(* one call at a time.                                                     *)

\* now - LastAccess > ttl makes an iterator expired; in clock ticks.
TTL == 1

\* Calls that touch an iterator are made up to this time; the clock runs
\* on until everything touched by then has expired.
MaxTime == 1

IdInputs == 1..MaxIters

\* GetIterator that also rewinds the iterator it returns.
GetIteratorRewinding(id) ==
    /\ now <= MaxTime
    /\ IF id \in DOMAIN iterators
       THEN /\ heap' = [heap EXCEPT ![iterators[id]].LastAccess = now,
                                    ![iterators[id]].LastNetwork = ZeroPrefix]
            /\ last' = [NoCall EXCEPT !.op = "GetIterator", !.id = id,
                                      !.ptr = iterators[id], !.found = TRUE,
                                      !.at = now]
       ELSE /\ heap' = heap
            /\ last' = [NoCall EXCEPT !.op = "GetIterator", !.id = id,
                                      !.at = now]
    /\ UNCHANGED <<updVars, reqVars, regVars, db, iterators, now, issued, chain, nops, task, dbVars>>

GetIterator(id) ==
    /\ now <= MaxTime
    /\ IF id \in DOMAIN iterators
       THEN /\ heap' = [heap EXCEPT ![iterators[id]].LastAccess = now]
            /\ last' = [NoCall EXCEPT !.op = "GetIterator", !.id = id,
                                      !.ptr = iterators[id], !.found = TRUE,
                                      !.at = now]
       ELSE /\ heap' = heap
            /\ last' = [NoCall EXCEPT !.op = "GetIterator", !.id = id,
                                      !.at = now]
    /\ UNCHANGED <<updVars, reqVars, regVars, db, iterators, now, issued, chain, nops, task, dbVars>>

\* The IDs one pass of cleanupExpired deletes.
Expired(t) ==
    {id \in DOMAIN iterators : t - heap[iterators[id]].LastAccess > TTL}

\* cleanupExpired that also deletes the iterators exactly ttl old.
cleanupExpiredAtTTL ==
    /\ iterators' = [id \in {k \in DOMAIN iterators :
                               now - heap[iterators[k]].LastAccess < TTL}
                        |-> iterators[id]]
    /\ last' = [NoCall EXCEPT !.op = "cleanupExpired", !.at = now]
    /\ UNCHANGED <<updVars, reqVars, regVars, db, heap, now, issued, chain, nops, task, dbVars>>

\* cleanupExpired that never deletes anything.
cleanupExpiredKeepingAll ==
    /\ iterators' = iterators
    /\ last' = [NoCall EXCEPT !.op = "cleanupExpired", !.at = now]
    /\ UNCHANGED <<updVars, reqVars, regVars, db, heap, now, issued, chain, nops, task, dbVars>>

cleanupExpired ==
    /\ iterators' = [id \in DOMAIN iterators \ Expired(now) |-> iterators[id]]
    /\ last' = [NoCall EXCEPT !.op = "cleanupExpired", !.at = now]
    /\ UNCHANGED <<updVars, reqVars, regVars, db, heap, now, issued, chain, nops, task, dbVars>>

MaxStarts == 2   \* StartCleanup calls per behaviour
MaxStops == 2    \* StopCleanup calls per behaviour

\* StartCleanup: one more goroutine enters the select loop.
StartCleanup ==
    /\ cleanup.started < MaxStarts
    /\ cleanup' = [cleanup EXCEPT !.started = @ + 1, !.goroutines = @ + 1]
    /\ UNCHANGED <<updVars, reqVars, iterVars, task, dbVars, mu, ops>>

\* StopCleanup that leaves an already closed channel alone.
StopCleanupOnce ==
    /\ cleanup.stops < MaxStops
    /\ cleanup' = [cleanup EXCEPT !.stop = "closed", !.stops = @ + 1]
    /\ last' = [NoCall EXCEPT !.op = "StopCleanup", !.at = now]
    /\ UNCHANGED <<updVars, reqVars, db, heap, iterators, now, issued, chain, nops, task,
                   dbVars, mu, ops>>

\* StopCleanup: close(m.stopCleanup), which panics on a closed channel.
StopCleanup ==
    /\ cleanup.stops < MaxStops
    /\ cleanup' = [cleanup EXCEPT !.stop = "closed", !.stops = @ + 1]
    /\ last' = [NoCall EXCEPT
                  !.op = "StopCleanup", !.at = now,
                  !.err = IF cleanup.stop = "closed"
                          THEN "panic: close of closed channel" ELSE ""]
    /\ UNCHANGED <<updVars, reqVars, db, heap, iterators, now, issued, chain, nops, task,
                   dbVars, mu, ops>>

\* The ticker fires in a cleanup goroutine that has exited already.
SweepWithoutGoroutine ==
    cleanupExpired

\* The ticker fires in a cleanup goroutine: the select takes <-ticker.C,
\* which it can also do when the stop channel is closed as well.
Sweep ==
    /\ cleanup.goroutines > 0
    /\ cleanupExpired

\* A cleanup goroutine takes <-m.stopCleanup and returns.
Exit ==
    /\ cleanup.stop = "closed"
    /\ cleanup.goroutines > 0
    /\ cleanup' = [cleanup EXCEPT !.goroutines = @ - 1]
    /\ UNCHANGED <<updVars, reqVars, iterVars, task, dbVars, mu, ops>>

\* Time passes.
Tick ==
    /\ now <= MaxTime + TTL
    /\ now' = now + 1
    /\ UNCHANGED <<updVars, reqVars, regVars, db, heap, iterators, issued, last, chain, nops, task,
                   dbVars>>

RegCreate == now <= MaxTime /\ CreateIterator(Network24, <<FilterUS>>, "and")
RegResume == now <= MaxTime /\ \E t \in issued : ResumeIterator(t)
RegIterate == now <= MaxTime /\ \E p \in 1..Len(heap) : Iterate(p, 1)
DoGet == \E id \in IdInputs : GetIterator(id)
RegRemove == \E id \in IdInputs : RemoveIterator(id)
\* main: StartCleanup once, StopCleanup deferred to the end.
RegStart == cleanup.started = 0 /\ StartCleanup
RegStop == cleanup.started > 0 /\ cleanup.stops = 0 /\ StopCleanup

NextReg ==
    \/ RegCreate
    \/ RegResume
    \/ RegIterate
    \/ DoGet
    \/ RegRemove
    \/ RegStart
    \/ RegStop
    \/ Sweep
    \/ Exit
    \/ Tick

InitReg == Init /\ db = <<RecUS, RecCA>>

SpecReg == InitReg /\ [][NextReg]_vars

\* The ticker keeps firing while the goroutine runs, and time advances.
SpecRegFair == SpecReg /\ WF_vars(Tick) /\ WF_vars(Sweep)

\* StartCleanup and StopCleanup called any number of times, in any order.
NextCleanup ==
    \/ RegCreate
    \/ StartCleanup
    \/ StopCleanup
    \/ Sweep
    \/ Exit
    \/ Tick

SpecCleanup == InitReg /\ [][NextCleanup]_vars

\* Once the stop channel is closed that case of the select stays ready, so
\* a goroutine waiting in the select ends up taking it.
SpecCleanupFair == SpecCleanup /\ WF_vars(Exit)

----------------------------------------------------------------------------
(* SpecRace: goroutines calling the registry operations at once.  A step   *)
(* is a lock operation on Manager.mu or the code run between two of them;  *)
(* a write of LastAccess is in progress from the step that starts it to    *)
(* the step that ends it.                                                  *)

\* A finished operation leaves the goroutine idle; whether it has ever
\* started a removal stays recorded.
Idle(g) == [IdleOp EXCEPT !.removed = ops[g].removed]

\* A Lock that never waits.
CanLockAlways(g) == TRUE

\* m.mu.Lock() can return.
CanLock(g) == mu.writer = 0 /\ mu.readers = {}

\* m.mu.RLock() can return.
CanRLock(g) == mu.writer = 0

\* createIteratorNoStart up to the ManagedIterator literal, for CreateIterator.
BeginCreate(g) ==
    /\ ops[g].pc = "idle"
    /\ nops < MaxOps
    /\ Len(heap) < MaxIters
    /\ heap' = Append(heap, NewIterator(heap, TheReader, DatabaseName, Network24,
                                        <<FilterUS>>, "and", now))
    /\ ops' = [ops EXCEPT ![g].pc = "lock", ![g].op = "CreateIterator",
                          ![g].ptr = Len(heap) + 1]
    /\ nops' = nops + 1
    /\ UNCHANGED <<updVars, reqVars, db, iterators, now, issued, last, chain, task, dbVars,
                   cleanup, mu>>

\* The same for ResumeIterator, from a token that parses.
BeginResume(g, token) ==
    /\ ops[g].pc = "idle"
    /\ nops < MaxOps
    /\ Len(heap) < MaxIters
    /\ ResumeError(token) = ""
    /\ LET resumeToken == parseResumeToken(token)
       IN heap' = Append(heap, NewIterator(heap, TheReader, resumeToken.Database,
                                           ParsePrefix(resumeToken.Network),
                                           resumeToken.Filters,
                                           resumeToken.FilterMode, now))
    /\ ops' = [ops EXCEPT ![g].pc = "lock", ![g].op = "ResumeIterator",
                          ![g].ptr = Len(heap) + 1, ![g].token = token]
    /\ nops' = nops + 1
    /\ UNCHANGED <<updVars, reqVars, db, iterators, now, issued, last, chain, task, dbVars,
                   cleanup, mu>>

BeginRemove(g, id) ==
    /\ ops[g].pc = "idle"
    /\ nops < MaxOps
    /\ ops' = [ops EXCEPT ![g].pc = "lock", ![g].op = "RemoveIterator",
                          ![g].id = id, ![g].removed = TRUE]
    /\ nops' = nops + 1
    /\ UNCHANGED <<updVars, reqVars, db, heap, iterators, now, issued, last, chain, task, dbVars,
                   cleanup, mu>>

BeginCleanup(g) ==
    /\ ops[g].pc = "idle"
    /\ nops < MaxOps
    /\ ops' = [ops EXCEPT ![g].pc = "lock", ![g].op = "cleanupExpired",
                          ![g].removed = TRUE]
    /\ nops' = nops + 1
    /\ UNCHANGED <<updVars, reqVars, db, heap, iterators, now, issued, last, chain, task, dbVars,
                   cleanup, mu>>

BeginGet(g, id) ==
    /\ ops[g].pc = "idle"
    /\ nops < MaxOps
    /\ ops' = [ops EXCEPT ![g].pc = "rlock", ![g].op = "GetIterator",
                          ![g].id = id]
    /\ nops' = nops + 1
    /\ UNCHANGED <<updVars, reqVars, db, heap, iterators, now, issued, last, chain, task, dbVars,
                   cleanup, mu>>

\* Goroutines whose LastAccess write on the iterator is in progress.
Writing(g, ptr) ==
    /\ ops[g].pc \in {"stamp", "stampUnlocked"}
    /\ ops[g].ptr = ptr

\* Iterate is entered: the write of LastAccess starts, with no lock held.
\* A sweep that is reading LastAccess fields now races with it.
BeginIterate(g, ptr) ==
    /\ ops[g].pc = "idle"
    /\ nops < MaxOps
    /\ ops' = [h \in Goroutines |->
                 IF h = g
                 THEN [ops[g] EXCEPT !.pc = "stampUnlocked", !.op = "Iterate",
                                     !.ptr = ptr]
                 ELSE IF ops[h].pc = "scan"
                 THEN [ops[h] EXCEPT !.raced = @ \cup {ptr}]
                 ELSE ops[h]]
    /\ nops' = nops + 1
    /\ UNCHANGED <<updVars, reqVars, db, heap, iterators, now, issued, last, chain, task, dbVars,
                   cleanup, mu>>

\* m.mu.Lock() returns; what runs under it depends on the operation.
Lock(g) ==
    /\ ops[g].pc = "lock"
    /\ CanLock(g)
    /\ mu' = [mu EXCEPT !.writer = g]
    /\ ops' = [ops EXCEPT
                 ![g].pc = CASE ops[g].op = "RemoveIterator" -> "delete"
                             [] ops[g].op = "cleanupExpired" -> "scan"
                             [] OTHER -> "insert",
                 ![g].raced = {p \in 1..Len(heap) :
                                  \E h \in Goroutines \ {g} : Writing(h, p)}]
    /\ UNCHANGED <<updVars, reqVars, iterVars, task, dbVars, cleanup>>

\* m.iterators[id] = iterator; m.mu.Unlock().  CreateIterator returns;
\* ResumeIterator goes on to restore the token's state.
Insert(g) ==
    /\ ops[g].pc = "insert"
    /\ iterators' = Put(iterators, heap[ops[g].ptr].ID, ops[g].ptr)
    /\ mu' = [mu EXCEPT !.writer = 0]
    /\ ops' = [ops EXCEPT ![g] = IF ops[g].op = "ResumeIterator"
                                 THEN [@ EXCEPT !.pc = "restore"]
                                 ELSE Idle(g)]
    /\ UNCHANGED <<updVars, reqVars, db, heap, now, issued, last, chain, nops, task, dbVars,
                   cleanup>>

\* updateCounters and setLastNetwork on the registered iterator.
Restore(g) ==
    /\ ops[g].pc = "restore"
    /\ LET ptr == ops[g].ptr
           it == ResumedIterator(SubSeq(heap, 1, ptr - 1), TheReader,
                                 parseResumeToken(ops[g].token), now)
       IN heap' = [heap EXCEPT ![ptr].Processed = it.Processed,
                               ![ptr].Matched = it.Matched,
                               ![ptr].LastNetwork = it.LastNetwork]
    /\ ops' = [ops EXCEPT ![g] = Idle(g)]
    /\ UNCHANGED <<updVars, reqVars, db, iterators, now, issued, last, chain, nops, task, dbVars,
                   cleanup, mu>>

\* delete(m.iterators, id); m.mu.Unlock()
DeleteEntry(g) ==
    /\ ops[g].pc = "delete"
    /\ iterators' = Delete(iterators, ops[g].id)
    /\ mu' = [mu EXCEPT !.writer = 0]
    /\ ops' = [ops EXCEPT ![g] = Idle(g)]
    /\ UNCHANGED <<updVars, reqVars, db, heap, now, issued, last, chain, nops, task, dbVars,
                   cleanup>>

\* cleanupExpired has read every LastAccess and deletes.  A LastAccess that
\* was being written while it was read may have been read as any time, so
\* the entry of a raced iterator is deleted or kept.
EndScan(g) ==
    /\ ops[g].pc = "scan"
    /\ \E torn \in SUBSET {id \in DOMAIN iterators : iterators[id] \in ops[g].raced} :
          iterators' = [id \in DOMAIN iterators \
                               ({k \in Expired(now) :
                                    iterators[k] \notin ops[g].raced} \cup torn)
                           |-> iterators[id]]
    /\ mu' = [mu EXCEPT !.writer = 0]
    /\ ops' = [ops EXCEPT ![g] = Idle(g)]
    /\ UNCHANGED <<updVars, reqVars, db, heap, now, issued, last, chain, nops, task, dbVars,
                   cleanup>>

\* m.mu.RLock() returns.
RLock(g) ==
    /\ ops[g].pc = "rlock"
    /\ CanRLock(g)
    /\ mu' = [mu EXCEPT !.readers = @ \cup {g}]
    /\ ops' = [ops EXCEPT ![g].pc = "lookup"]
    /\ UNCHANGED <<updVars, reqVars, iterVars, task, dbVars, cleanup>>

\* iterator, exists := m.iterators[id]; when it exists the write of
\* LastAccess starts.
Lookup(g) ==
    /\ ops[g].pc = "lookup"
    /\ ops' = [ops EXCEPT
                 ![g].pc = IF ops[g].id \in DOMAIN iterators
                           THEN "stamp" ELSE "runlock",
                 ![g].ptr = IF ops[g].id \in DOMAIN iterators
                            THEN iterators[ops[g].id] ELSE 0]
    /\ UNCHANGED <<updVars, reqVars, iterVars, task, dbVars, cleanup, mu>>

\* The write of LastAccess ends.
Stamp(g) ==
    /\ ops[g].pc = "stamp"
    /\ heap' = [heap EXCEPT ![ops[g].ptr].LastAccess = now]
    /\ ops' = [ops EXCEPT ![g].pc = "runlock"]
    /\ UNCHANGED <<updVars, reqVars, db, iterators, now, issued, last, chain, nops, task, dbVars,
                   cleanup, mu>>

\* The deferred m.mu.RUnlock(); GetIterator returns.
RUnlock(g) ==
    /\ ops[g].pc = "runlock"
    /\ mu' = [mu EXCEPT !.readers = @ \ {g}]
    /\ ops' = [ops EXCEPT ![g] = Idle(g)]
    /\ UNCHANGED <<updVars, reqVars, iterVars, task, dbVars, cleanup>>

\* The unlocked write of LastAccess ends and Iterate runs on to its return.
FinishIterate(g) ==
    /\ ops[g].pc = "stampUnlocked"
    /\ LET ptr == ops[g].ptr
           res == IterationResult(db, heap[ptr], 1, now)
       IN /\ heap' = [heap EXCEPT ![ptr] = IterateAfter(db, @, 1, now)]
          /\ issued' = issued \cup {res.ResumeToken}
    /\ ops' = [ops EXCEPT ![g] = Idle(g)]
    /\ UNCHANGED <<updVars, reqVars, db, iterators, now, last, chain, nops, task, dbVars,
                   cleanup, mu>>

RaceStep(g) ==
    \/ Lock(g)
    \/ Insert(g)
    \/ Restore(g)
    \/ DeleteEntry(g)
    \/ EndScan(g)
    \/ RLock(g)
    \/ Lookup(g)
    \/ Stamp(g)
    \/ RUnlock(g)
    \/ FinishIterate(g)

RaceBegin(g) ==
    \/ BeginCreate(g)
    \/ \E token \in issued : BeginResume(g, token)
    \/ \E id \in IdInputs : BeginRemove(g, id)
    \/ BeginCleanup(g)
    \/ \E id \in IdInputs : BeginGet(g, id)
    \/ \E ptr \in 1..Len(heap) : BeginIterate(g, ptr)

NextRace == \E g \in Goroutines : RaceBegin(g) \/ RaceStep(g)

SpecRace == InitReg /\ [][NextRace]_vars

----------------------------------------------------------------------------
(* SpecIndep: two callers running Iterate at once, each on its own iterator *)

IndepCreate(network, filters, filterMode) ==
    /\ Len(heap) < Cardinality(Callers)
    /\ LET it == NewIterator(heap, TheReader, DatabaseName, network, filters,
                             filterMode, now)
       IN /\ heap' = Append(heap, it)
          /\ iterators' = Put(iterators, it.ID, Len(heap) + 1)
    /\ UNCHANGED <<updVars, reqVars, regVars, db, now, issued, last, chain, nops, task, dbVars>>

\* Caller c enters Iterate on the iterator it created.
CallIterateOwn(c, maxResults) ==
    /\ Len(heap) = Cardinality(Callers)
    /\ task[c].pc = "idle"
    /\ heap' = [heap EXCEPT ![c].LastAccess = now]
    /\ task' = [task EXCEPT ![c] = [IdleCall EXCEPT !.pc = "getLastNetwork",
                                                      !.ptr = c,
                                                      !.cap = maxResults]]
    /\ UNCHANGED <<updVars, reqVars, regVars, db, iterators, now, issued, last, chain, nops, dbVars>>

DoIndepCreate == \E b \in BindingInputs : IndepCreate(b[1], b[2], b[3])
DoCallOwn == \E c \in Callers, m \in ConcCaps : CallIterateOwn(c, m)

NextIndep == DoIndepCreate \/ DoCallOwn \/ DoStep

SpecIndep == InitReg /\ [][NextIndep]_vars

----------------------------------------------------------------------------
(* SpecUpdate: the updater downloading and installing a database *)

MaxUpdates == 3   \* UpdateDatabase calls per behaviour

\* filepath.Join(DatabaseDir, edition+".mmdb")
DBPath(edition) == <<"data", edition \o ".mmdb">>

\* How far updateDatabase gets without the comparison of the MD5.
UpdateOutcomeNoMD5Check(response, fail) ==
    IF fail = "download" THEN "download failed"
    ELSE IF ~response.UpdateAvailable THEN "no update"
    ELSE IF fail = "mkdir" THEN "failed to create database directory"
    ELSE IF fail = "create" THEN "failed to create temp file"
    ELSE IF fail = "copy" THEN "failed to write database"
    ELSE IF fail = "close" THEN "failed to close file"
    ELSE IF fail = "rename" THEN "failed to replace database file"
    ELSE "updated"

\* How far updateDatabase gets: the error it returns with, "no update", or
\* "updated".  fail names the system call that fails, if any.
UpdateOutcome(response, fail) ==
    IF fail = "download" THEN "download failed"
    ELSE IF ~response.UpdateAvailable THEN "no update"
    ELSE IF fail = "mkdir" THEN "failed to create database directory"
    ELSE IF fail = "create" THEN "failed to create temp file"
    ELSE IF fail = "copy" THEN "failed to write database"
    ELSE IF fail = "close" THEN "failed to close file"
    ELSE IF response.MD5 # "" /\ response.MD5 # response.body THEN "MD5 mismatch"
    ELSE IF fail = "rename" THEN "failed to replace database file"
    ELSE "updated"

\* UpdateDatabase(ctx, edition): updateDatabase under the lock, then
\* saveChecksums.  The temp file is created, written and removed or renamed
\* within the call; saves tells whether the checksum file could be written.
UpdateDatabase(edition, response, fail, saves) ==
    /\ updater.calls < MaxUpdates
    /\ LET outcome == UpdateOutcome(response, fail)
           newMD5 == response.body
           base == UpdateResult(edition)
           result ==
               IF outcome = "no update"
               THEN [base EXCEPT !.LastUpdate = response.LastModified]
               ELSE IF outcome # "updated"
               THEN [base EXCEPT !.Error = outcome]
               ELSE [base EXCEPT
                       !.Updated = TRUE,
                       !.LastUpdate = response.LastModified,
                       !.Size = 1,
                       !.Error = IF fail = "reload"
                                 THEN "warning: failed to reload database in manager"
                                 ELSE ""]
           checksums == IF outcome = "updated"
                        THEN [updater.checksums EXCEPT ![edition] = newMD5]
                        ELSE updater.checksums
       IN /\ updater' =
                [updater EXCEPT
                   !.checksums = checksums,
                   !.saved = IF saves THEN checksums ELSE @,
                   !.installed = IF outcome = "updated"
                                 THEN [@ EXCEPT ![edition] = newMD5] ELSE @,
                   \* os.Create, then os.Remove or os.Rename: gone either way
                   !.temp = IF outcome \in {"download failed", "no update",
                                            "failed to create database directory",
                                            "failed to create temp file"}
                            THEN @ ELSE [@ EXCEPT ![edition] = ""],
                   !.calls = @ + 1,
                   !.edition = edition, !.response = response, !.fail = fail,
                   !.result = result]
          /\ IF outcome = "updated" /\ fail # "reload"
             THEN loadDatabase(DBPath(edition))
             ELSE UNCHANGED <<readers, databases, rstate>>
    /\ UNCHANGED <<reqVars, regVars, iterVars, task, held>>

\* What the download can answer: nothing new, or a body with the MD5 the
\* server states for it, another MD5, or none.
ResponseInputs ==
    {Response(FALSE, "", "", 1)}
    \cup {Response(TRUE, md5, body, modified) :
            md5 \in {"", "a", "b"}, body \in {"a", "b"}, modified \in {1, 2}}

FailInputs ==
    {"none", "download", "mkdir", "create", "copy", "close", "rename", "reload"}

DoUpdate ==
    \E e \in Editions, r \in ResponseInputs, f \in FailInputs, saves \in BOOLEAN :
        UpdateDatabase(e, r, f, saves)

NextUpdate == DoUpdate

SpecUpdate == InitReg /\ [][NextUpdate]_vars

----------------------------------------------------------------------------
(* SpecMode: CreateIterator and ResumeIterator given any filter mode *)

\* Mode strings a caller can pass, or a token can carry.
FilterModeInputs == {"and", "or", "AND", "Or", "", "xor"}

\* The two filters: no record of the snapshot satisfies both, every record
\* satisfies one of them.
ModeCreate ==
    \E m \in FilterModeInputs : CreateIterator(Network24, <<FilterUS, FilterAsn>>, m)

\* Tokens handed out, and the same tokens with the mode replaced.
ModeTokenInputs ==
    issued \cup {Base64Encode([t.data EXCEPT !.filter_mode = m]) :
                    t \in issued, m \in FilterModeInputs}

ModeResume == \E t \in ModeTokenInputs : ResumeIterator(t)

ModeIterate == \E p \in 1..Len(heap), c \in {1, 2} : Iterate(p, c)

NextMode == ModeCreate \/ ModeResume \/ ModeIterate

SpecMode == InitReg /\ [][NextMode]_vars

----------------------------------------------------------------------------
(* SpecHandler: lookup_network requests answered by handleLookupNetwork *)

\* Request arguments are sequences: <<>> when the argument is not supplied
\* (GetString then gives "", GetFloat the default), <<x>> when it is x.

\* One element of the filters argument: an object with the keys field,
\* operator and value (a missing key reads as the empty string), or
\* something that is not an object.
FilterItem(f, op, val) == [kind |-> "object", field |-> f, operator |-> op, value |-> val]
StringItem == [kind |-> "string", field |-> <<"">>, operator |-> "", value |-> VNil]

\* parseFiltersFromRequest: the error, "" for none.
ParseFiltersError(arg) ==
    IF arg = <<>> THEN ""
    ELSE IF arg[1].kind # "array" THEN "filters must be an array of objects"
    ELSE IF \E i \in 1..Len(arg[1].items) : arg[1].items[i].kind # "object"
               /\ \A j \in 1..(i - 1) : arg[1].items[j].kind = "object"
                      /\ arg[1].items[j].field # <<"">>
                      /\ arg[1].items[j].operator # ""
    THEN "filters[i] must be an object"
    ELSE IF \E i \in 1..Len(arg[1].items) :
               arg[1].items[i].field = <<"">> \/ arg[1].items[i].operator = ""
    THEN "filters[i] missing required keys"
    ELSE ""

\* parseFiltersFromRequest: the filters, operators normalized.
ParseFilters(arg) ==
    IF arg = <<>> THEN <<>>
    ELSE [i \in 1..Len(arg[1].items) |->
             Filter(arg[1].items[i].field,
                    normalizeOperator(arg[1].items[i].operator),
                    arg[1].items[i].value)]

\* The invalid_filter answer of the handler that leaves Validate out.
FilterErrorParseOnly(arg) ==
    ParseFiltersError(arg)

\* The invalid_filter answer: parse error first, then Validate.
FilterError(arg) ==
    IF ParseFiltersError(arg) # "" THEN ParseFiltersError(arg)
    ELSE Validate(ParseFilters(arg)).msg

Request(network, database, filters, mode, maxResults, id, token) ==
    [network |-> network, database |-> database, filters |-> filters,
     filter_mode |-> mode, max_results |-> maxResults,
     iterator_id |-> id, resume_token |-> token]

\* The answer of the handler: the error code ("" for a result), the result,
\* and what the manager was asked to do on the way.
Answer(req, code) ==
    [code |-> code, req |-> req, res |-> NoResult, ptr |-> 0, at |-> now,
     looked |-> FALSE, resumed |-> FALSE, created |-> FALSE]

MaxRequests == 2   \* lookup_network requests per behaviour

\* GetIterator is asked only when a resume_token is not given as well.
FoundIteratorUnlessToken(req) ==
    /\ req.iterator_id # <<>>
    /\ req.iterator_id[1] \in DOMAIN iterators
    /\ req.resume_token = <<>>

\* iterator_id is given and GetIterator finds it.
FoundIterator(req) ==
    /\ req.iterator_id # <<>>
    /\ req.iterator_id[1] \in DOMAIN iterators

handleLookupNetwork(req) ==
    /\ nops < MaxRequests
    /\ nops' = nops + 1
    /\ LET names == Range(databases)
           dbName == IF req.database = "" /\ names # {}
                     THEN CHOOSE n \in names : TRUE
                     ELSE req.database
           hasReader == \E path \in DOMAIN databases :
                            databases[path] = dbName /\ path \in DOMAIN readers
           early ==
               IF req.network = <<>> THEN "missing_parameter"
               ELSE IF ~ParsePrefixOK(req.network[1]) THEN "invalid_network"
               ELSE IF req.database = "" /\ names = {} THEN "no_databases"
               ELSE IF ~hasReader THEN "db_not_found"
               ELSE IF FilterError(req.filters) # "" THEN "invalid_filter"
               ELSE ""
       IN IF early # ""
          THEN /\ reply' = Answer(req, early)
               /\ UNCHANGED <<heap, iterators, issued>>
          ELSE
          LET reader == readers[CHOOSE path \in DOMAIN databases :
                                    databases[path] = dbName]
              network == ParsePrefix(req.network[1])
              filters == ParseFilters(req.filters)
              filterMode == IF req.filter_mode = <<>> THEN "and"
                            ELSE req.filter_mode[1]
              maxResults == IF req.max_results = <<>> THEN 1000
                            ELSE req.max_results[1]
              looked == req.iterator_id # <<>>
              found == FoundIterator(req)
              resumes == ~found /\ req.resume_token # <<>>
              \* GetIterator stamps the iterator it finds
              heap1 == IF found
                       THEN [heap EXCEPT ![iterators[req.iterator_id[1]]].LastAccess = now]
                       ELSE heap
              err == IF resumes THEN ResumeError(req.resume_token[1]) ELSE ""
              registers == err \in {"", "invalid last network in resume token"}
              it == IF resumes
                    THEN ResumedIterator(heap, reader,
                                         parseResumeToken(req.resume_token[1]), now)
                    ELSE NewIterator(heap, reader, dbName, network, filters,
                                     filterMode, now)
              heap2 == IF found \/ ~registers THEN heap1 ELSE Append(heap1, it)
              ptr == IF found THEN iterators[req.iterator_id[1]] ELSE Len(heap) + 1
              base == [Answer(req, "") EXCEPT !.looked = looked, !.resumed = resumes,
                                              !.created = ~found /\ ~resumes]
          IN /\ found \/ Len(heap) < MaxIters
             /\ iterators' = IF found \/ ~registers THEN iterators
                             ELSE Put(iterators, it.ID, ptr)
             /\ IF err # ""
                THEN /\ heap' = heap2
                     /\ reply' = [base EXCEPT !.code = "resume_failed"]
                     /\ UNCHANGED issued
                ELSE IF maxResults < 0
                THEN /\ heap' = [heap2 EXCEPT ![ptr].LastAccess = now]
                     /\ reply' = [base EXCEPT !.code = "panic", !.ptr = ptr]
                     /\ UNCHANGED issued
                ELSE LET res == IterationResult(db, heap2[ptr], maxResults, now)
                     IN /\ heap' = [heap2 EXCEPT
                                      ![ptr] = IterateAfter(db, @, maxResults, now)]
                        /\ reply' = [base EXCEPT !.res = res, !.ptr = ptr]
                        /\ issued' = issued \cup {res.ResumeToken}
    /\ UNCHANGED <<updVars, db, now, last, chain, task, dbVars, regVars, eval>>

NetworkArg == PrefixString(Network24)

FiltersArgInputs ==
    {<<>>,
     <<[kind |-> "string", items |-> <<>>]>>,
     <<[kind |-> "array", items |-> <<FilterItem(CountryField, "eq", VStr(US))>>]>>,
     <<[kind |-> "array", items |-> <<StringItem>>]>>,
     <<[kind |-> "array", items |-> <<FilterItem(<<"asn">>, "", VInt(1))>>]>>,
     <<[kind |-> "array", items |-> <<FilterItem(CountryField, "eq", VStr(US)),
                                      FilterItem(<<"asn">>, "exists", VInt(1))>>]>>}

\* A token whose last network is not a network of the database.
ForeignAnchor == Prefix(5, 32)

AnchorToken ==
    generateResumeToken([NilIterator EXCEPT !.Database = DatabaseName,
                                            !.Network = Network24,
                                            !.FilterMode = ModeAnd,
                                            !.Processed = 1,
                                            !.Matched = 1,
                                            !.LastNetwork = ForeignAnchor])

\* Tokens a client can send: the ones it was given, and altered ones.
TokenInputs ==
    issued
    \cup {NotBase64, Base64Encode(NotJSON), AnchorToken}
    \cup {Base64Encode([t.data EXCEPT !.network = EmptyString]) : t \in issued}
    \cup {Base64Encode([t.data EXCEPT !.last_network = [kind |-> "cidr", addr |-> 0,
                                                         bits |-> 33]]) : t \in issued}
    \cup {Base64Encode([t.data EXCEPT !.filters = MarshalFilters(
                            <<Filter(<<"asn">>, "exists", VInt(1))>>)]) : t \in issued}

\* Requests that get past the network and database checks.
LookupInputs ==
    {Request(<<NetworkArg>>, "", f, <<>>, m, id, t) :
        f \in FiltersArgInputs,
        m \in {<<1>>},
        id \in {<<>>} \cup {<<i>> : i \in IdInputs},
        t \in {<<>>} \cup {<<k>> : k \in TokenInputs}}

\* Requests that differ from a plain one in a single argument.
OtherInputs ==
    {Request(n, d, <<>>, <<"OR">>, m, <<>>, <<>>) :
        n \in {<<>>, <<EmptyString>>, <<NetworkArg>>},
        d \in {DatabaseName, "GeoIP2-ISP.mmdb"},
        m \in {<<>>, <<0>>, <<-1>>}}

\* Requests that name an iterator and carry a network, filters, a mode and
\* a token of their own.
ContinueInputs ==
    {Request(<<PrefixString(SubBlock(2))>>, "",
             <<[kind |-> "array", items |-> <<FilterItem(CountryField, "eq", VStr(CA))>>]>>,
             <<"or">>, <<1>>, <<i>>, t) :
        i \in IdInputs, t \in {<<>>, <<NotBase64>>}}

DoLookup ==
    \E req \in LookupInputs \cup OtherInputs \cup ContinueInputs :
        handleLookupNetwork(req)

\* Time passes between the requests.
HandlerTick == now < MaxTime /\ Tick

NextHandler == DoLookup \/ HandlerTick

\* New server: one database loaded, no iterator yet.
InitHandler ==
    /\ db = <<RecUS, RecCA>> /\ heap = <<>> /\ iterators = EmptyMap /\ now = 0
    /\ issued = {} /\ last = NoCall /\ chain = NoChain /\ nops = 0
    /\ task = NoTask
    /\ readers = [p \in {<<"data", DatabaseName>>} |-> TheReader]
    /\ databases = [p \in {<<"data", DatabaseName>>} |-> DatabaseName]
    /\ rstate = <<"open">> /\ held = {}
    /\ cleanup = NoCleanup /\ mu = Unlocked /\ ops = NoOps
    /\ eval = NoEval /\ reply = NoReply /\ updater = NoUpdater

SpecHandler == InitHandler /\ [][NextHandler]_vars

----------------------------------------------------------------------------
(* SpecFilter: the filter package applied to filters, modes and records *)

MaxFilters == 2   \* filters in a list handed to the engine or to Validate

FieldInputs ==
    {CountryField, <<"asn">>, <<"missing">>, <<"asn", "iso_code">>, <<"">>}

OperatorInputs == SupportedOperators \cup {"starts_with"}

ValueInputs ==
    {VNil, VStr(US), VStr(<<"[">>), VStr(<<"2">>), VInt(1), VBool(TRUE),
     VBool(FALSE), VArr(<<VNil>>), VArr(<<VStr(US), VUint(1)>>)}

PredicateInputs ==
    {Filter(f, op, val) : f \in FieldInputs, op \in OperatorInputs,
                          val \in ValueInputs}

\* Filters put together in lists: some match, some do not, some are not
\* valid.
ListedFilters ==
    {Filter(CountryField, "equals", VStr(US)),
     Filter(<<"asn">>, "greater_than_or_equal", VInt(2)),
     Filter(<<"missing">>, "exists", VBool(FALSE)),
     Filter(<<"asn">>, "starts_with", VStr(US)),
     Filter(<<"asn">>, "not_in", VUint(1)),
     Filter(CountryField, "regex", VStr(<<"[">>)),
     Filter(<<"">>, "equals", VNil)}

FilterListInputs ==
    {<<f>> : f \in PredicateInputs}
    \cup UNION {[1..n -> ListedFilters] : n \in 0..MaxFilters}

ModeInputs == {ModeAnd, ModeOr, ""}

DataInputs == {RecUS, RecCA}

InitFilter ==
    /\ db = <<>> /\ heap = <<>> /\ iterators = EmptyMap /\ now = 0
    /\ issued = {} /\ last = NoCall /\ chain = NoChain /\ nops = 0
    /\ task = NoTask
    /\ readers = EmptyMap /\ databases = EmptyMap /\ rstate = <<>> /\ held = {}
    /\ cleanup = NoCleanup /\ mu = Unlocked /\ ops = NoOps
    /\ reply = NoReply /\ updater = NoUpdater
    /\ eval \in {[NoEval EXCEPT !.fn = "input", !.filters = fs, !.mode = m,
                                !.data = d] :
                    fs \in FilterListInputs, m \in ModeInputs, d \in DataInputs}

\* filter.New(filters, mode).Matches(data)
ApplyMatches ==
    /\ eval.fn = "input"
    /\ eval' = [eval EXCEPT
                  !.fn = "Matches",
                  !.out = Matches(NewEngine(eval.filters, eval.mode), eval.data)]
    /\ UNCHANGED <<updVars, iterVars, task, dbVars, regVars, reply>>

\* evaluateFilter(filter, data) on a single filter
ApplyEvaluateFilter ==
    /\ eval.fn = "input"
    /\ Len(eval.filters) = 1
    /\ eval' = [eval EXCEPT
                  !.fn = "evaluateFilter",
                  !.out = evaluateFilter(eval.filters[1], eval.data)]
    /\ UNCHANGED <<updVars, iterVars, task, dbVars, regVars, reply>>

\* filter.Validate(filters)
ApplyValidate ==
    /\ eval.fn = "input"
    /\ eval' = [eval EXCEPT !.fn = "Validate", !.err = Validate(eval.filters)]
    /\ UNCHANGED <<updVars, iterVars, task, dbVars, regVars, reply>>

NextFilter == ApplyMatches \/ ApplyEvaluateFilter \/ ApplyValidate

SpecFilter == InitFilter /\ [][NextFilter]_vars

----------------------------------------------------------------------------
(* Reference notions used by the properties *)

\* Position of a network in a traversal, 0 when it does not occur.
IndexOf(trav, p) ==
    IF \E i \in 1..Len(trav) : trav[i].prefix = p
    THEN CHOOSE i \in 1..Len(trav) : trav[i].prefix = p
    ELSE 0

\* The entry decodes and passes the iterator's filter engine, if it has one.
Admits(iterator, e) ==
    /\ e.rec # Undecodable
    /\ iterator.FilterEngine.present => Matches(iterator.FilterEngine, e.rec)

RECURSIVE MatchingFrom(_, _, _)
MatchingFrom(iterator, trav, i) ==
    IF i > Len(trav) THEN <<>>
    ELSE (IF Admits(iterator, trav[i]) THEN <<trav[i].prefix>> ELSE <<>>)
         \o MatchingFrom(iterator, trav, i + 1)

\* The matching networks of one uncapped pass, in traversal order.
UncappedPass(d, iterator) ==
    MatchingFrom(iterator, NetworksWithin(d, iterator.Network), 1)

Networks(results) == [i \in 1..Len(results) |-> results[i].Network]

IsPrefixOf(a, b) == Len(a) <= Len(b) /\ SubSeq(b, 1, Len(a)) = a

NoRepeats(a) == \A i, j \in 1..Len(a) : i # j => a[i] # a[j]

IterateOK == last.op = "Iterate" /\ last.err = ""

----------------------------------------------------------------------------
(* C1..C6, C9, C10: batches, paging and resume, under Spec *)

\* C1: ResumeIterator on a token whose last network is N, followed by Iterate
\* on the resumed iterator, does not return N and does not count N again: the
\* networks counted by the call are exactly those after N up to the new
\* last network.
C1_NoDoubleCountOnResume ==
    [][ ( /\ last.op = "ResumeIterator" /\ last.err = ""
          /\ last'.op = "Iterate" /\ last'.err = "" /\ last'.ptr = last.ptr
          /\ last'.pre.LastNetwork.valid )
        => LET N == last'.pre.LastNetwork
               trav == NetworksWithin(db, last'.pre.Network)
               after == heap'[last'.ptr]
           IN /\ \A i \in 1..Len(last'.res.Results) :
                     last'.res.Results[i].Network # N
              /\ last'.res.TotalProcessed - last'.pre.Processed
                     = IndexOf(trav, after.LastNetwork) - IndexOf(trav, N) ]_vars

\* C2: along a lineage paged with positive caps, each step continuing from
\* the latest result (same iterator, or ResumeIterator on the latest token),
\* the batches concatenated never repeat a network, are a prefix of the
\* uncapped pass, and equal it once a batch reports HasMore = FALSE.
C2_PagingEquivalence ==
    (chain.active /\ chain.linear /\ chain.poscaps)
    => LET full == UncappedPass(db, heap[chain.root])
       IN /\ NoRepeats(chain.acc)
          /\ IsPrefixOf(chain.acc, full)
          /\ chain.done => chain.acc = full

\* C3: once Iterate has returned HasMore = FALSE for an iterator, the next
\* Iterate on it returns no results, HasMore = FALSE and the same counters,
\* and the iterator stays registered.
C3_DrainedStaysDrained ==
    [][ ( /\ last.op = "Iterate" /\ last.err = "" /\ ~last.res.HasMore
          /\ last'.op = "Iterate" /\ last'.err = "" /\ last'.ptr = last.ptr )
        => /\ last'.res.Results = <<>>
           /\ ~last'.res.HasMore
           /\ last'.res.TotalProcessed = last.res.TotalProcessed
           /\ last'.res.TotalMatched = last.res.TotalMatched
           /\ iterators' = iterators ]_vars

\* C4: whatever maxResults is passed, a batch never has more than
\* maxResults entries.
C4_BatchCap ==
    IterateOK => Len(last.res.Results) <= last.cap

\* C5: for a positive cap, HasMore is TRUE exactly when the traversal has an
\* entry after the last network this call processed.
C5_HasMoreExact ==
    (IterateOK /\ last.cap > 0)
    => LET trav == NetworksWithin(db, last.pre.Network)
           at == IndexOf(trav, heap[last.ptr].LastNetwork)
       IN last.res.HasMore <=> (at < Len(trav))

\* C6: Iterate on a fresh iterator whose traversal holds fewer than
\* maxResults matches returns exactly the matching networks in order,
\* TotalProcessed = size of the traversal, TotalMatched = len(Results),
\* HasMore = FALSE.
FreshExhaustive ==
    /\ IterateOK
    /\ last.pre.Processed = 0 /\ last.pre.Matched = 0
    /\ ~last.pre.LastNetwork.valid
    /\ Len(UncappedPass(db, last.pre)) < last.cap

C6_SingleExhaustiveBatch ==
    FreshExhaustive
    => /\ Networks(last.res.Results) = UncappedPass(db, last.pre)
       /\ last.res.TotalProcessed = Len(NetworksWithin(db, last.pre.Network))
       /\ last.res.TotalMatched = Len(last.res.Results)
       /\ ~last.res.HasMore

C6_Witness ==
    /\ FreshExhaustive
    /\ last.res.TotalProcessed = 2
    /\ Len(last.res.Results) = 1
    /\ last.pre.FilterEngine.present

\* C9 as claimed: along a chain of Iterate calls and ResumeIterator calls on
\* any token produced earlier in the chain, the reported counters never
\* decrease.
C9_MonotonicAnyToken ==
    chain.active => (chain.cur.P >= chain.prev.P /\ chain.cur.M >= chain.prev.M)

\* C9 amended: when every step continues from the latest result (the iterator
\* just advanced or resumed, or ResumeIterator on the latest token), the
\* reported Processed and Matched never decrease.
C9_MonotonicLatestToken ==
    (chain.active /\ chain.linear)
    => (chain.cur.P >= chain.prev.P /\ chain.cur.M >= chain.prev.M)

C9_Witness ==
    /\ chain.active /\ chain.linear
    /\ last.op = "Iterate" /\ last.ptr = chain.ptr /\ chain.ptr # chain.root
    /\ chain.prev.P > 0
    /\ chain.cur.P > chain.prev.P

\* C10: a token generated from an iterator resumed from token T decodes to
\* the same database, network, predicates, mode, processed, matched and
\* last network as T.
C10_ResumeRoundTrip ==
    (last.op = "ResumeIterator" /\ last.err = "")
    => parseResumeToken(generateResumeToken(heap[last.ptr]))
          = parseResumeToken(last.token)

C10_Witness ==
    /\ last.op = "ResumeIterator" /\ last.err = ""
    /\ heap[last.ptr].LastNetwork.valid
    /\ heap[last.ptr].Processed > heap[last.ptr].Matched
    /\ heap[last.ptr].Matched > 0
    /\ Len(heap[last.ptr].Filters) > 0

----------------------------------------------------------------------------
(* C7: concurrent Iterate calls on one iterator, under SpecConc *)

\* What the two calls return and leave behind when first runs alone to the
\* end and second runs after it.
InOrder(first, second) ==
    LET it0 == [heap[Shared] EXCEPT !.Processed = 0, !.Matched = 0,
                                    !.LastNetwork = ZeroPrefix]
        it1 == IterateAfter(db, it0, task[first].cap, now)
        it2 == IterateAfter(db, it1, task[second].cap, now)
    IN /\ task[first].res = IterationResult(db, it0, task[first].cap, now)
       /\ task[second].res = IterationResult(db, it1, task[second].cap, now)
       /\ heap[Shared] = it2

\* C7: when two concurrent Iterate calls on the same iterator have both
\* returned, their results and the iterator's Processed, Matched and
\* LastNetwork are those of one of the two sequential orders.
C7_Serialized ==
    (\A c \in Callers : task[c].pc = "done") => (InOrder(1, 2) \/ InOrder(2, 1))

----------------------------------------------------------------------------
(* C8: readers in use stay open, under SpecDB *)

----------------------------------------------------------------------------
(* C11..C15: the registry over time, under SpecReg and SpecRegFair *)

\* The step is a call of the named operation.
Called(op) == last'.op = op /\ last' # last

\* Everything registered before the step is registered to the same iterator
\* after it, and no iterator already allocated has changed.
EntriesKept ==
    /\ \A id \in DOMAIN iterators :
          id \in DOMAIN iterators' /\ iterators'[id] = iterators[id]
    /\ \A p \in 1..Len(heap) : heap'[p] = heap[p]

C12_SweepExact ==
    [][ Called("cleanupExpired")
        => /\ DOMAIN iterators' =
                 {id \in DOMAIN iterators :
                     ~(now - heap[iterators[id]].LastAccess > TTL)}
           /\ \A id \in DOMAIN iterators' : iterators'[id] = iterators[id]
           /\ heap' = heap ]_vars

\* A sweep removed one iterator and kept another that was exactly ttl old.
C12_Witness ==
    /\ last.op = "cleanupExpired" /\ last.at = now
    /\ \E p \in 1..Len(heap) :
          heap[p].ID \notin DOMAIN iterators /\ now - heap[p].LastAccess > TTL
    /\ \E id \in DOMAIN iterators : now - heap[iterators[id]].LastAccess = TTL

\* C13: while the cleanup goroutine is running, with the ticker firing and
\* time advancing, every registered iterator is eventually removed once
\* calls stop touching it.
C13_ExpiryLiveness ==
    \A id \in IdInputs :
        (id \in DOMAIN iterators /\ cleanup.goroutines > 0)
        ~> (id \notin DOMAIN iterators \/ cleanup.goroutines = 0)

\* The running goroutine has swept away an iterator that GetIterator had
\* kept alive at an earlier time.
C13_Witness ==
    /\ cleanup.goroutines > 0
    /\ last.op = "cleanupExpired"
    /\ iterators = EmptyMap
    /\ \E p \in 1..Len(heap) : heap[p].LastAccess > heap[p].Created

\* C14: after RemoveIterator(id) the ID is not registered; on an ID that is
\* not registered the call changes nothing; removing again changes nothing;
\* the other entries and all iterators are untouched.
C14_RemoveIdempotent ==
    [][ Called("RemoveIterator")
        => LET id == last'.id
           IN /\ id \notin DOMAIN iterators'
              /\ id \notin DOMAIN iterators => iterators' = iterators
              /\ Delete(iterators', id) = iterators'
              /\ \A k \in DOMAIN iterators \ {id} :
                    k \in DOMAIN iterators' /\ iterators'[k] = iterators[k]
              /\ heap' = heap ]_vars

\* An ID that was registered has been removed while another one stays.
C14_Witness ==
    /\ last.op = "RemoveIterator"
    /\ \E p \in 1..Len(heap) : heap[p].ID = last.id
    /\ last.id \notin DOMAIN iterators
    /\ iterators # EmptyMap

\* C15: GetIterator on a registered ID returns that iterator and changes
\* only its LastAccess; on an unregistered ID it returns not found and
\* changes nothing; the registered IDs are the same either way.
C15_LookupFrame ==
    [][ Called("GetIterator")
        => LET id == last'.id
           IN /\ iterators' = iterators
              /\ IF id \in DOMAIN iterators
                 THEN /\ last'.found /\ last'.ptr = iterators[id]
                      /\ heap' = [heap EXCEPT ![iterators[id]].LastAccess = now]
                 ELSE /\ ~last'.found /\ last'.ptr = 0
                      /\ heap' = heap ]_vars

\* A lookup refreshed an iterator that had already advanced.
C15_Witness ==
    /\ last.op = "GetIterator" /\ last.found
    /\ heap[last.ptr].LastNetwork.valid
    /\ heap[last.ptr].Processed > 0
    /\ heap[last.ptr].LastAccess > heap[last.ptr].Created

----------------------------------------------------------------------------
(* C16, C17: goroutines on the registry at once, under SpecRace *)

\* The goroutine is reading the LastAccess of the iterator: cleanupExpired
\* ranging over the registry.
Reading(g, ptr) ==
    /\ ops[g].pc = "scan"
    /\ \E id \in DOMAIN iterators : iterators[id] = ptr

\* C16: no two goroutines access the LastAccess of the same iterator at
\* once when one of the accesses is a write (by GetIterator or Iterate);
\* this includes the read made by cleanupExpired.
C16_LastAccessExclusive ==
    \A g, h \in Goroutines, ptr \in 1..Len(heap) :
        (g # h /\ Writing(g, ptr)) => ~(Writing(h, ptr) \/ Reading(h, ptr))

\* The goroutine is between Lock and Unlock of Manager.mu.
InWrite(g) == ops[g].pc \in {"insert", "delete", "scan"}

\* The goroutine is between RLock and RUnlock of Manager.mu.
InRead(g) == ops[g].pc \in {"lookup", "stamp", "runlock"}

\* Iterators whose creation has returned from the registry insert.
Inserted ==
    {ptr \in 1..Len(heap) :
        ~\E g \in Goroutines : ops[g].ptr = ptr /\ ops[g].pc \in {"lock", "insert"}}

----------------------------------------------------------------------------
(* C18: Iterate calls on different iterators, under SpecIndep *)

\* The iterator of caller c as CreateIterator left it.
Untouched(c) ==
    [heap[c] EXCEPT !.Processed = 0, !.Matched = 0, !.LastNetwork = ZeroPrefix]

\* C18: a step of an Iterate call changes no field of an iterator other
\* than its own; a call in flight can always take its next step, whatever
\* the call on the other iterator is doing; and what a call returns and
\* leaves behind is what it returns and leaves behind running alone.
C18_IteratorsIndependent ==
    [][ \A c \in Callers :
          /\ task'[c] # task[c]
                => \A p \in 1..Len(heap) : p # task'[c].ptr => heap'[p] = heap[p]
          /\ task[c].pc \notin {"idle", "done"}
                => ENABLED ( \/ StepGetLastNetwork(c)
                             \/ StepIncrementProcessed(c)
                             \/ StepSetLastNetwork(c)
                             \/ StepIncrementMatched(c)
                             \/ StepTokenCounters(c)
                             \/ StepTokenLastNetwork(c)
                             \/ StepReturn(c) )
          /\ task'[c].pc = "done"
                => /\ task'[c].res =
                         IterationResult(db, Untouched(c), task'[c].cap, now)
                   /\ heap'[c] = IterateAfter(db, Untouched(c), task'[c].cap, now)
      ]_vars

\* Both calls are inside their range loops, on different iterators.
C18_Witness ==
    /\ task[1].pc = "setLastNetwork" /\ task[2].pc = "incrementMatched"
    /\ task[1].ptr # task[2].ptr
    /\ task[1].i = 2

----------------------------------------------------------------------------
(* C19, C20: decode failures and the cap the handler passes, under Spec *)

\* The entries the last Iterate call went through: from the resume anchor
\* (the first entry for an iterator without a last network) to the entry
\* that is the stored last network afterwards.
Visited ==
    LET trav == NetworksWithin(db, last.pre.Network)
        from == IF last.pre.LastNetwork.valid
                THEN IndexOf(trav, last.pre.LastNetwork)
                ELSE 1
        to == IndexOf(trav, heap[last.ptr].LastNetwork)
    IN IF from = 0 THEN {} ELSE from..to

\* C19: a network whose record fails to decode inside Iterate is counted in
\* Processed, is not counted in Matched, is not in Results and becomes the
\* stored LastNetwork; the call goes on with the next network and returns
\* no error.
C19_DecodeFailureLocal ==
    (last.op = "Iterate" /\ last.ptr # 0 /\ last.cap >= 0)
    => LET trav == NetworksWithin(db, last.pre.Network)
           after == heap[last.ptr]
           failed == {i \in Visited : trav[i].rec = Undecodable}
       IN /\ last.err = ""
          /\ after.Processed - last.pre.Processed = Cardinality(Visited)
          /\ after.Matched - last.pre.Matched = Len(last.res.Results)
          /\ Cardinality(Visited \ failed) >= Len(last.res.Results)
          /\ \A k \in 1..Len(last.res.Results) :
                /\ last.res.Results[k].Data # Undecodable
                /\ \A i \in failed :
                      last.res.Results[k].Network # trav[i].prefix
          /\ \A i \in failed :
                \/ i < IndexOf(trav, after.LastNetwork)
                \/ /\ after.LastNetwork = trav[i].prefix
                   /\ i = Len(trav)
                   /\ ~last.res.HasMore

\* A call that met a record it could not decode, went on, and returned the
\* network after it.
C19_Witness ==
    /\ last.op = "Iterate" /\ last.err = "" /\ last.ptr # 0
    /\ ~last.pre.LastNetwork.valid
    /\ Len(db) = 2 /\ db[1] = Undecodable
    /\ Len(last.res.Results) = 1
    /\ last.res.Results[1].Network = SubBlock(2)
    /\ last.res.TotalProcessed = 2
    /\ last.res.TotalMatched = 1

\* C24: Iterate called with a nil iterator returns an error and no result,
\* and leaves the registry and every iterator as they were.
C24_NilIteratorRejected ==
    [][ (last'.op = "Iterate" /\ last'.ptr = 0 /\ nops' = nops + 1)
        => /\ last'.err # ""
           /\ last'.res = NoResult
           /\ iterators' = iterators
           /\ heap' = heap ]_vars

\* Iterate was called with nil while an iterator that has been advanced is
\* registered.
C24_Witness ==
    /\ last.op = "Iterate" /\ last.ptr = 0 /\ last.err # ""
    /\ \E id \in DOMAIN iterators : heap[iterators[id]].Processed > 0

\* C20: Iterate is only ever entered with a strictly positive maxResults.
C20_PositiveCap ==
    last.op = "Iterate" => last.cap > 0

----------------------------------------------------------------------------
(* C21..C23: errors answered by handleLookupNetwork, under SpecHandler *)

\* The step is one request answered by the handler.
Handled == nops' = nops + 1 /\ reply'.code # "none"

\* The token is not base64, is not the JSON object of a token, or carries a
\* network that is not a CIDR.
BadToken(token) ==
    \/ ~token.b64
    \/ ~token.data.object
    \/ ~(token.data.network.kind = "cidr" /\ token.data.network.bits \in 0..32)

\* C21: ResumeIterator on a token that is not base64, not the token object,
\* or carries an invalid network returns an error and no iterator; the
\* handler answers resume_failed and makes no iteration.
C21_ResumeTokenErrors ==
    [][ (Handled /\ reply'.resumed /\ BadToken(reply'.req.resume_token[1]))
        => /\ reply'.code = "resume_failed"
           /\ reply'.res = NoResult
           /\ heap' = heap
           /\ iterators' = iterators
           /\ issued' = issued ]_vars

\* A token with its network altered was refused while an iterator is
\* registered.
C21_Witness ==
    /\ reply.code = "resume_failed"
    /\ reply.req.resume_token[1].b64
    /\ reply.req.resume_token[1].data.object
    /\ reply.req.resume_token[1].data.network = EmptyString
    /\ iterators # EmptyMap

\* The filters argument fails parsing or Validate.
FiltersRefused(arg) ==
    \/ ParseFiltersError(arg) # ""
    \/ Validate(ParseFilters(arg)) # NoError

C23_UnknownIteratorReported ==
    [][ ( /\ Handled
          /\ reply'.looked
          /\ reply'.req.iterator_id[1] \notin DOMAIN iterators
          /\ reply'.req.resume_token = <<>> )
        => reply'.code = "iterator_not_found" ]_vars

----------------------------------------------------------------------------
(* C27..C30: the filter package, under SpecFilter *)

\* C27: Matches is TRUE for an empty filter list in both modes; for a
\* non-empty list it is, in mode and, TRUE exactly when every filter
\* matches and, in mode or, TRUE exactly when at least one matches.
C27_CombinationSemantics ==
    eval.fn = "Matches"
    => LET mode == IF eval.mode = "" THEN ModeAnd ELSE eval.mode
           hit == {i \in 1..Len(eval.filters) :
                      evaluateFilter(eval.filters[i], eval.data)}
       IN /\ Len(eval.filters) = 0 => eval.out
          /\ (Len(eval.filters) > 0 /\ mode = ModeAnd)
                => (eval.out <=> hit = 1..Len(eval.filters))
          /\ (Len(eval.filters) > 0 /\ mode = ModeOr)
                => (eval.out <=> hit # {})

\* An empty list matched in mode or.
C27_Witness ==
    /\ eval.fn = "Matches" /\ eval.mode = ModeOr
    /\ eval.filters = <<>> /\ eval.out

\* The dot-path of the filter resolves to absent in the record.
Absent == getNestedField(eval.data, eval.filters[1].Field).t = "nil"

\* C28: on an absent field, exists false matches and exists true does not,
\* not_equals and not_in match, and every other operator does not match,
\* whatever the filter value is (null and arrays holding null included).
C28_AbsenceSemantics ==
    (eval.fn = "evaluateFilter" /\ Absent)
    => LET f == eval.filters[1]
       IN /\ (f.Operator = "exists" /\ f.Value = VBool(FALSE)) => eval.out
          /\ (f.Operator = "exists" /\ f.Value = VBool(TRUE)) => ~eval.out
          /\ f.Operator \in {"not_equals", "not_in"} => eval.out
          /\ f.Operator \in SupportedOperators \ {"exists", "not_equals", "not_in"}
                => ~eval.out

\* A filter that Validate rejects for its operator or for the type of its
\* value.
Malformed(f) ==
    \/ f.Operator \notin SupportedOperators
    \/ f.Operator \in {"in", "not_in"} /\ f.Value.t # "array"
    \/ f.Operator = "regex" /\ (f.Value.t # "str" \/ ~RegexCompiles(f.Value.v))
    \/ f.Operator = "exists" /\ f.Value.t # "bool"

\* C29: a filter that Validate rejects evaluates to non-match on every
\* record.
C29_FailClosed ==
    (eval.fn = "evaluateFilter" /\ Malformed(eval.filters[1])) => ~eval.out

\* A filter that breaks one of the rules of Validate.
Rejected(f) == f.Field = <<"">> \/ Malformed(f)

\* C30: Validate returns an error exactly when some filter of the list has
\* an empty field or is malformed, the error carries the index of the first
\* such filter, and every other list is accepted.
C30_ValidationRules ==
    eval.fn = "Validate"
    => LET bad == {i \in 1..Len(eval.filters) : Rejected(eval.filters[i])}
       IN /\ bad = {} <=> eval.err = NoError
          /\ bad # {} => /\ eval.err.index + 1 \in bad
                         /\ \A i \in bad : eval.err.index + 1 <= i
                         /\ eval.err.msg # ""

\* A list whose first filter is accepted and whose second is not.
C30_Witness ==
    /\ eval.fn = "Validate" /\ Len(eval.filters) = 2
    /\ ~Rejected(eval.filters[1])
    /\ eval.filters[2].Operator = "not_in"
    /\ eval.err.index = 1

----------------------------------------------------------------------------
(* C25, C26: starting and stopping the sweep, under SpecCleanup *)

\* C25: StopCleanup can always be called and returns or panics without
\* waiting, also when StartCleanup was never called; once the stop channel
\* is closed every cleanup goroutine exits, and when none is left no
\* iterator is removed by expiry.
C25_StopTerminatesSweep ==
    /\ [](cleanup.stops < MaxStops => ENABLED StopCleanup)
    /\ (cleanup.stop = "closed") ~> (cleanup.goroutines = 0)
    /\ [][cleanup.goroutines = 0 => ~Called("cleanupExpired")]_vars

\* Two goroutines were started, the stop channel was closed, both have
\* exited, and an iterator older than the ttl is still registered.
C25_Witness ==
    /\ cleanup.started = 2 /\ cleanup.stop = "closed" /\ cleanup.goroutines = 0
    /\ Expired(now) # {}

\* C26: the first StopCleanup call returns normally; a later call on the
\* same Manager ends in the panic of closing a closed channel.
C26_DoubleStopPanics ==
    [][ Called("StopCleanup")
        => /\ cleanup.stops = 0 => last'.err = ""
           /\ cleanup.stops > 0 => last'.err = "panic: close of closed channel"
      ]_vars

\* The second StopCleanup call has panicked.
C26_Witness ==
    /\ last.op = "StopCleanup" /\ last.err # ""
    /\ cleanup.stops = 2

----------------------------------------------------------------------------
(* C31: filter modes, under SpecMode *)

\* The mode a mode string stands for: "or" in any letter case is or,
\* everything else is and.
ModeOf(m) == IF m \in {"or", "OR", "Or", "oR"} THEN ModeOr ELSE ModeAnd

\* The entries of the batch are the ones the filters admit under mode.
AdmittedUnder(mode, filters, data) ==
    IF mode = ModeOr
    THEN \E i \in 1..Len(filters) : evaluateFilter(filters[i], data)
    ELSE \A i \in 1..Len(filters) : evaluateFilter(filters[i], data)

\* C31: CreateIterator and ResumeIterator store "or" for a mode string that
\* is "or" in any letter case and "and" for every other string, the empty
\* one included; every resume token carries the stored mode and every
\* batch holds exactly the records the filters admit under that mode.
C31_ModeNormalized ==
    /\ last.op = "CreateIterator"
       => heap[last.ptr].FilterMode = ModeOf(last.mode)
    /\ (last.op = "ResumeIterator" /\ last.err = "")
       => heap[last.ptr].FilterMode = ModeOf(last.token.data.filter_mode)
    /\ \A p \in 1..Len(heap) :
          /\ heap[p].FilterMode \in {ModeAnd, ModeOr}
          /\ heap[p].FilterEngine.present
             => heap[p].FilterEngine.mode = heap[p].FilterMode
    /\ (last.op = "Iterate" /\ last.err = "" /\ last.ptr # 0)
       => /\ last.res.ResumeToken.data.filter_mode = last.pre.FilterMode
          /\ \A i \in 1..Len(last.res.Results) :
                AdmittedUnder(last.pre.FilterMode, last.pre.Filters,
                              last.res.Results[i].Data)
          /\ LET trav == NetworksWithin(db, last.pre.Network)
             IN \A k \in Visited :
                   AdmittedUnder(last.pre.FilterMode, last.pre.Filters, trav[k].rec)
                   => \E i \in 1..Len(last.res.Results) :
                         last.res.Results[i].Network = trav[k].prefix

\* An iterator has been resumed from a token whose mode is "xor" and
\* combines its filters with and.
C31_Witness ==
    /\ last.op = "ResumeIterator" /\ last.err = ""
    /\ last.token.data.filter_mode = "xor"
    /\ heap[last.ptr].FilterMode = ModeAnd
    /\ heap[last.ptr].FilterEngine.mode = ModeAnd

----------------------------------------------------------------------------
(* C32, C33: what a batch and its token hold, under Spec *)

\* C32: every entry of a batch is a network of the traversal of the
\* iterator's network, with the record decoded there, and satisfies the
\* filter engine when the iterator has one; without a filter engine every
\* network the call went through whose record decodes is in the batch.
C32_BatchSound ==
    (IterateOK /\ last.ptr # 0)
    => LET trav == NetworksWithin(db, last.pre.Network)
           engine == last.pre.FilterEngine
           results == last.res.Results
       IN /\ \A i \in 1..Len(results) :
                \E k \in 1..Len(trav) :
                    /\ trav[k].prefix = results[i].Network
                    /\ trav[k].rec = results[i].Data
                    /\ trav[k].rec # Undecodable
                    /\ engine.present => Matches(engine, trav[k].rec)
          /\ ~engine.present
             => \A k \in Visited :
                   trav[k].rec # Undecodable
                   => \E i \in 1..Len(results) :
                         results[i].Network = trav[k].prefix

\* A batch of an iterator with a filter engine that holds an entry and
\* left out a network it went through.
C32_Witness ==
    /\ IterateOK /\ last.ptr # 0
    /\ last.pre.FilterEngine.present
    /\ Len(last.res.Results) = 1
    /\ last.res.TotalProcessed - last.pre.Processed = 2
    /\ \A k \in 1..Len(db) : db[k] # Undecodable

\* C33: the token of an Iterate call run alone carries the Processed and
\* Matched counts of the same result, the database, network, filters and
\* mode of the iterator, and as last_network the text of the last network
\* the iterator has processed so far, the empty string when there is none.
C33_TokenPostBatch ==
    (IterateOK /\ last.ptr # 0)
    => LET token == last.res.ResumeToken
           after == heap[last.ptr]
       IN /\ token.b64 /\ token.data.object
          /\ token.data.processed = last.res.TotalProcessed
          /\ token.data.matched = last.res.TotalMatched
          /\ token.data.processed = after.Processed
          /\ token.data.matched = after.Matched
          /\ token.data.database = last.pre.Database
          /\ token.data.network = PrefixString(last.pre.Network)
          /\ token.data.filters = MarshalFilters(last.pre.Filters)
          /\ token.data.filter_mode = last.pre.FilterMode
          /\ token.data.last_network =
                IF Visited # {}
                THEN PrefixString(NetworksWithin(db, last.pre.Network)
                                    [CHOOSE k \in Visited :
                                        \A j \in Visited : j <= k].prefix)
                ELSE IF last.pre.LastNetwork.valid
                THEN PrefixString(last.pre.LastNetwork)
                ELSE EmptyString

\* A second batch went past the network the first one stopped at; the token
\* names the new one.
C33_Witness ==
    /\ IterateOK /\ last.ptr # 0
    /\ last.pre.LastNetwork.valid
    /\ last.res.TotalProcessed > last.pre.Processed + 1
    /\ last.res.ResumeToken.data.last_network
          # PrefixString(last.pre.LastNetwork)

----------------------------------------------------------------------------
(* C34: the counters of an iterator, under SpecConc *)

\* C34: for an iterator made by CreateIterator and advanced by Iterate
\* calls in any interleaving, 0 <= Matched <= Processed holds in every
\* state, in the counters every token is made from and in the totals of
\* every IterationResult.
C34_MatchedWithinProcessed ==
    /\ \A p \in 1..Len(heap) :
          0 <= heap[p].Matched /\ heap[p].Matched <= heap[p].Processed
    /\ \A c \in Callers :
          /\ 0 <= task[c].matched /\ task[c].matched <= task[c].processed
          /\ 0 <= task[c].res.TotalMatched
          /\ task[c].res.TotalMatched <= task[c].res.TotalProcessed

\* One call has returned its totals while the other has counted a network
\* as processed and not yet as matched.
C34_Witness ==
    /\ \E c \in Callers : task[c].pc = "done" /\ task[c].res.TotalMatched > 0
    /\ \E c \in Callers : task[c].pc = "incrementMatched"
    /\ heap[Shared].Matched < heap[Shared].Processed

----------------------------------------------------------------------------
(* C36, C37, C38, C40: resuming and continuing, under SpecHandler *)

\* C36: whenever ResumeIterator returns an error (the handler answers
\* resume_failed), the registry holds the same iterators as before the call.
C36_FailedResumeNoTrace ==
    [][ (Handled /\ reply'.resumed /\ reply'.code = "resume_failed")
        => iterators' = iterators ]_vars

\* C37: every registered iterator holds a filter list that filter.Validate
\* accepts, whether the request created it, continued it by iterator_id or
\* resumed it from a resume_token.
C37_RegisteredFiltersValid ==
    \A id \in DOMAIN iterators :
        Validate(heap[iterators[id]].Filters) = NoError

\* The iterator the request is answered from, as far as the batch depends
\* on it: the registered one on continuation, the token's on resumption.
Anchored ==
    IF reply'.resumed
    THEN LET token == reply'.req.resume_token[1].data
         IN [Network |-> ParsePrefix(token.network),
             LastNetwork |-> ParsePrefix(token.last_network),
             Processed |-> token.processed, Matched |-> token.matched]
    ELSE LET it == heap[reply'.ptr]
         IN [Network |-> it.Network, LastNetwork |-> it.LastNetwork,
             Processed |-> it.Processed, Matched |-> it.Matched]

\* The last network is valid and is no network of the traversal.
AnchorMissing(it) ==
    /\ it.LastNetwork.valid
    /\ IndexOf(NetworksWithin(db, it.Network), it.LastNetwork) = 0

\* C38: Iterate on an iterator whose last network is valid and not in the
\* traversal returns an empty batch with HasMore false and no error, and
\* leaves Processed, Matched and the last network as they were.
C38_MissingAnchorEndsSilently ==
    [][ ( /\ Handled /\ reply'.code \in {"", "iteration_failed"}
          /\ ~reply'.created
          /\ AnchorMissing(Anchored) )
        => /\ reply'.code = ""
           /\ reply'.res.Results = <<>>
           /\ ~reply'.res.HasMore
           /\ reply'.res.TotalProcessed = Anchored.Processed
           /\ reply'.res.TotalMatched = Anchored.Matched
           /\ heap'[reply'.ptr].Processed = Anchored.Processed
           /\ heap'[reply'.ptr].Matched = Anchored.Matched
           /\ heap'[reply'.ptr].LastNetwork = Anchored.LastNetwork ]_vars

\* An iterator resumed at a network outside the database has been
\* continued by its ID and answered with an empty last batch.
C38_Witness ==
    /\ reply.code = "" /\ reply.looked /\ ~reply.resumed /\ ~reply.created
    /\ heap[reply.ptr].LastNetwork = ForeignAnchor
    /\ reply.res.Results = <<>> /\ ~reply.res.HasMore
    /\ reply.res.TotalProcessed = 1

----------------------------------------------------------------------------
(* C39: what an iterator is bound to, under SpecReg *)

\* ID, Database, Network, Filters and FilterMode of the iterator.
Binding(it) == <<it.ID, it.Database, it.Network, it.Filters, it.FilterMode>>

\* C39: no Iterate, GetIterator, RemoveIterator or cleanupExpired call, and
\* no other step, changes the ID, Database, Network, Filters or FilterMode
\* of an iterator once it is registered, and every registry key is the ID
\* of the iterator stored under it.
C39_BindingImmutable ==
    /\ [](\A id \in DOMAIN iterators : heap[iterators[id]].ID = id)
    /\ [][ /\ Len(heap') >= Len(heap)
           /\ \A p \in 1..Len(heap) : Binding(heap'[p]) = Binding(heap[p])
           /\ \A id \in DOMAIN iterators \cap DOMAIN iterators' :
                 iterators'[id] = iterators[id] ]_vars

\* An iterator has been advanced, looked up and then removed by the sweep,
\* and still carries the binding it was created with.
C39_Witness ==
    /\ last.op = "cleanupExpired" /\ iterators = EmptyMap
    /\ Len(heap) = 2
    /\ heap[1].Processed = 2 /\ heap[1].LastAccess = 1
    /\ Binding(heap[1]) = <<1, DatabaseName, Network24,
                            NormalizeFilters(<<FilterUS>>), ModeAnd>>

\* The request names an iterator that is registered.
NamesRegistered ==
    /\ Handled
    /\ reply'.req.iterator_id # <<>>
    /\ reply'.req.iterator_id[1] \in DOMAIN iterators

\* The request got past the network, database and filter checks and asks
\* for a batch size that is not negative.
PastChecks ==
    /\ reply'.code \notin {"missing_parameter", "invalid_network", "no_databases",
                           "db_not_found", "invalid_filter"}
    /\ reply'.req.max_results = <<>> \/ reply'.req.max_results[1] >= 0

\* The answer is the next batch of the iterator registered under the ID of
\* the request, taken from that iterator's network and filter engine; the
\* registry and every other iterator are as before and no token was
\* decoded.
Continued ==
    LET id == reply'.req.iterator_id[1]
        ptr == iterators[id]
        stored == [heap[ptr] EXCEPT !.LastAccess = now]
        maxResults == IF reply'.req.max_results = <<>> THEN 1000
                      ELSE reply'.req.max_results[1]
    IN /\ reply'.code = ""
       /\ reply'.ptr = ptr /\ ~reply'.resumed /\ ~reply'.created
       /\ iterators' = iterators
       /\ Len(heap') = Len(heap)
       /\ \A p \in 1..Len(heap) : p # ptr => heap'[p] = heap[p]
       /\ heap'[ptr] = IterateAfter(db, stored, maxResults, now)
       /\ reply'.res = IterationResult(db, stored, maxResults, now)
       /\ reply'.res.IteratorID = id
       /\ \A i \in 1..Len(reply'.res.Results) :
             /\ PrefixContains(stored.Network, reply'.res.Results[i].Network)
             /\ stored.FilterEngine.present
                => Matches(stored.FilterEngine, reply'.res.Results[i].Data)

----------------------------------------------------------------------------
(* C35: installing an update, under SpecUpdate *)

\* The step is an UpdateDatabase call.
Updating == updater'.calls = updater.calls + 1

\* The call ended in one of the failures, or found no update.
NotInstalled ==
    \/ updater'.fail \in {"download", "mkdir", "create", "copy", "close", "rename"}
       /\ updater'.result.Error # ""
    \/ ~updater'.response.UpdateAvailable
    \/ /\ updater'.response.MD5 # ""
       /\ updater'.response.MD5 # updater'.response.body

\* C35: updateDatabase changes the stored checksum of the edition only when
\* the MD5 of the bytes written is the one the server stated (or none was
\* stated) and the temp file has been renamed to the installed file, and
\* then to that MD5; when the download fails, no update is available, the
\* write or the close fails, the MD5 differs or the rename fails, checksum
\* and installed file are unchanged, no temp file is left and the result
\* has Updated false.
C35_UpdateAtomic ==
    [][ Updating
        => LET e == updater'.edition
           IN /\ updater'.checksums[e] # updater.checksums[e]
                 => /\ updater'.response.MD5 \in {"", updater'.response.body}
                    /\ updater'.installed[e] = updater'.response.body
                    /\ updater'.checksums[e] = updater'.response.body
                    /\ updater'.result.Updated
              /\ updater'.result.Updated
                 => /\ updater'.checksums[e] = updater'.response.body
                    /\ updater'.installed[e] = updater'.response.body
              /\ NotInstalled
                 => /\ updater'.checksums = updater.checksums
                    /\ updater'.installed = updater.installed
                    /\ updater'.temp[e] = ""
                    /\ ~updater'.result.Updated
                    /\ UNCHANGED <<readers, databases, rstate>> ]_vars

\* After an installed update, a later download delivered bytes whose MD5 is
\* not the stated one: checksum and file are still those of the first.
C35_Witness ==
    /\ updater.calls = 2
    /\ updater.result.Error = "MD5 mismatch"
    /\ updater.response.body = "b"
    /\ updater.checksums["GeoLite2-City"] = "a"
    /\ updater.installed["GeoLite2-City"] = "a"
    /\ updater.temp["GeoLite2-City"] = ""

====
